---- MODULE Spec2Model ----
(***************************************************************************)
(* State-machine model of odpf/salt: the layered configuration Loader      *)
(* (config/config.go, on top of viper, mapstructure, flatten and           *)
(* go-defaults), the Logrus facade (log/logrus.go) and the grouped help    *)
(* renderer (cmdx/help.go, and package help).                              *)
(*                                                                         *)
(* Strings that the code transforms (key paths, environment variable       *)
(* names, prefixes, raw environment values) are sequences of one-character *)
(* strings, so that upper-casing, replacing and parsing are computed.      *)
(* Names that are only compared (directories, extensions, error kinds) are *)
(* plain strings.                                                          *)
(***************************************************************************)
EXTENDS Integers, Sequences, FiniteSets, TLC

VARIABLES
    fs,        \* file system: file slot <<dir, base name, extension>> -> content
    env,       \* process environment: variable name -> raw value (set variables only)
    schema,    \* the struct type the callers load into (nested fields, default tags)
    vipers,    \* viper instance id -> viper instance state
    loaders,   \* Loader id -> [v |-> id of its viper instance, given |-> ids it got by
               \* WithViper, todo |-> options NewLoader has still to apply,
               \* half |-> the first of them has made its first access]
    pc,        \* Loader id -> position of the Load call in flight ("idle" when none),
               \* "option" inside NewLoader, "fault" once the runtime stopped the process
    cur,       \* Loader id -> the Load call in flight or last finished, with its
               \* locals (at) while it is in flight
    prev,      \* Loader id -> the Load call finished before cur
    solo,      \* Loader id -> the viper state this Loader would have, had it run alone
    edits,     \* number of file-system / environment changes made so far
    logger,    \* the Logrus logger: level and emitted entries (not alive when
               \* NewLogrus panicked or Fatal ended the process)
    help       \* the help renderer: command, arguments and the streams written

vars == <<fs, env, schema, vipers, loaders, pc, cur, prev, solo, edits, logger, help>>

(***************************************************************************)
(* Bounds of the model.                                                    *)
(***************************************************************************)
MaxCalls == 2      \* Load calls per Loader
MaxEdits == 2      \* changes to the file system and the environment
MaxArgs  == 4      \* extra arguments of a log call
MaxCmds  == 2      \* subcommands of the command whose help is rendered
MaxLogs  == 1      \* calls of the level methods of one logger
MaxTwoCalls == 2   \* Load calls of the two Loaders of SpecTwo together

(***************************************************************************)
(* Strings.                                                                *)
(***************************************************************************)
EmptyMap == [k \in {} |-> 0]

RECURSIVE MapSeq(_, _)
MapSeq(f, s) == IF s = <<>> THEN <<>> ELSE <<f[Head(s)]>> \o MapSeq(f, Tail(s))

LowerLetters == <<"a", "b", "c", "d", "e", "f", "g", "h", "i", "j", "k", "l", "m",
                  "n", "o", "p", "q", "r", "s", "t", "u", "v", "w", "x", "y", "z">>
UpperLetters == <<"A", "B", "C", "D", "E", "F", "G", "H", "I", "J", "K", "L", "M",
                  "N", "O", "P", "Q", "R", "S", "T", "U", "V", "W", "X", "Y", "Z">>
DigitChars   == <<"0", "1", "2", "3", "4", "5", "6", "7", "8", "9">>

\* the position of c in seq, 0 when it is not there
Index(seq, c) ==
    IF \E i \in 1..Len(seq) : seq[i] = c
    THEN CHOOSE i \in 1..Len(seq) : seq[i] = c ELSE 0

\* the bytes the model's strings are made of, in the order of their values
AsciiOrder ==
    <<" ", "\"", "+", "-", ".", "/">> \o DigitChars \o UpperLetters
    \o <<"\\", "_">> \o LowerLetters

Chars == { AsciiOrder[i] : i \in 1..Len(AsciiOrder) }

UpperChar == [c \in Chars |->
    IF \E i \in 1..Len(LowerLetters) : LowerLetters[i] = c
    THEN UpperLetters[CHOOSE i \in 1..Len(LowerLetters) : LowerLetters[i] = c] ELSE c]

LowerChar == [c \in Chars |->
    IF \E i \in 1..Len(UpperLetters) : UpperLetters[i] = c
    THEN LowerLetters[CHOOSE i \in 1..Len(UpperLetters) : UpperLetters[i] = c] ELSE c]

\* strings.ToUpper / strings.ToLower
ToUpper(s) == MapSeq(UpperChar, s)
ToLower(s) == MapSeq(LowerChar, s)

\* a < b for Go strings: byte by byte, a proper prefix first
RECURSIVE Less(_, _)
Less(a, b) ==
    IF b = <<>> THEN FALSE
    ELSE IF a = <<>> THEN TRUE
    ELSE IF Head(a) = Head(b) THEN Less(Tail(a), Tail(b))
    ELSE Index(AsciiOrder, Head(a)) < Index(AsciiOrder, Head(b))

RECURSIVE insertByName(_, _)
insertByName(sorted, c) ==
    IF sorted = <<>> THEN <<c>>
    ELSE IF Less(c.name, Head(sorted).name) THEN <<c>> \o sorted
    ELSE <<Head(sorted)>> \o insertByName(Tail(sorted), c)

\* sort.Sort by name, as cobra sorts commands and pflag sorts flags; the
\* names of one list differ
RECURSIVE sortByName(_)
sortByName(list) ==
    IF list = <<>> THEN <<>>
    ELSE insertByName(sortByName(SubSeq(list, 1, Len(list) - 1)), list[Len(list)])

\* strings.NewReplacer(old, new).Replace(s), old non-empty: every
\* non-overlapping occurrence of old, scanning left to right.
RECURSIVE Replace(_, _, _)
Replace(old, new, s) ==
    IF Len(s) < Len(old) THEN s
    ELSE IF SubSeq(s, 1, Len(old)) = old
         THEN new \o Replace(old, new, SubSeq(s, Len(old) + 1, Len(s)))
         ELSE <<Head(s)>> \o Replace(old, new, Tail(s))

\* strings.Split(s, "."): the dot-separated segments of a key
RECURSIVE SplitDot(_, _)
SplitDot(s, acc) ==
    IF s = <<>> THEN <<acc>>
    ELSE IF Head(s) = "." THEN <<acc>> \o SplitDot(Tail(s), <<>>)
         ELSE SplitDot(Tail(s), Append(acc, Head(s)))

\* strings.Join(segs[0:n], ".")
RECURSIVE JoinDot(_, _)
JoinDot(segs, n) ==
    IF n = 0 THEN <<>>
    ELSE IF n = 1 THEN segs[1]
         ELSE JoinDot(segs, n - 1) \o <<".">> \o segs[n]

\* the proper parent paths of a key: "s.p" -> {"s"}
ParentKeys(key) ==
    LET segs == SplitDot(key, <<>>)
    IN  { JoinDot(segs, i) : i \in 1..(Len(segs) - 1) }

\* strconv: the value of a byte as a digit, 99 for a byte that is no digit
digitVal(c) ==
    IF Index(DigitChars, c) > 0 THEN Index(DigitChars, c) - 1
    ELSE IF c \in Chars /\ Index(LowerLetters, LowerChar[c]) > 0
         THEN Index(LowerLetters, LowerChar[c]) + 9
         ELSE 99

\* strconv.ParseUint's digit loop: with base 0 an underscore is skipped,
\* a byte that is no digit of the base is a syntax error
RECURSIVE parseDigits(_, _, _, _)
parseDigits(s, base, base0, acc) ==
    IF s = <<>> THEN [ok |-> TRUE, n |-> acc]
    ELSE IF Head(s) = "_" /\ base0 THEN parseDigits(Tail(s), base, base0, acc)
    ELSE IF digitVal(Head(s)) >= base THEN [ok |-> FALSE, n |-> 0]
    ELSE parseDigits(Tail(s), base, base0, acc * base + digitVal(Head(s)))

\* strconv.underscoreOK's scan: saw is "^" at the start, "0" after a digit or
\* a base prefix, "_" after an underscore, "!" after anything else
RECURSIVE underscoreScan(_, _, _)
underscoreScan(s, hex, saw) ==
    IF s = <<>> THEN saw # "_"
    ELSE IF digitVal(Head(s)) < (IF hex THEN 16 ELSE 10) THEN underscoreScan(Tail(s), hex, "0")
    ELSE IF Head(s) = "_" THEN saw = "0" /\ underscoreScan(Tail(s), hex, "_")
    ELSE saw # "_" /\ underscoreScan(Tail(s), hex, "!")

\* strconv.underscoreOK(s): underscores only between digits or after a base
\* prefix; an optional sign is skipped first
underscoreOK(s) ==
    LET u == IF s # <<>> /\ Head(s) \in {"-", "+"} THEN Tail(s) ELSE s
    IN  IF Len(u) >= 2 /\ u[1] = "0" /\ u[2] \in Chars /\ LowerChar[u[2]] \in {"b", "o", "x"}
        THEN underscoreScan(SubSeq(u, 3, Len(u)), LowerChar[u[2]] = "x", "0")
        ELSE underscoreScan(u, FALSE, "^")

\* the base a base-0 string is read in, as <<base, bytes of prefix>>
basePrefix(s) ==
    IF s[1] # "0" THEN <<10, 0>>
    ELSE IF Len(s) >= 3 /\ s[2] \in Chars /\ LowerChar[s[2]] = "b" THEN <<2, 2>>
    ELSE IF Len(s) >= 3 /\ s[2] \in Chars /\ LowerChar[s[2]] = "o" THEN <<8, 2>>
    ELSE IF Len(s) >= 3 /\ s[2] \in Chars /\ LowerChar[s[2]] = "x" THEN <<16, 2>>
    ELSE <<8, 1>>

\* strconv.ParseUint(s, base, 64), base 0 or 10; the values of the model
\* stay below 2^63
ParseUint(s, base) ==
    IF s = <<>> THEN [ok |-> FALSE, n |-> 0]
    ELSE IF base # 0 THEN parseDigits(s, base, FALSE, 0)
    ELSE LET r == parseDigits(SubSeq(s, basePrefix(s)[2] + 1, Len(s)), basePrefix(s)[1], TRUE, 0)
         IN  IF r.ok /\ (\E i \in 1..Len(s) : s[i] = "_") /\ ~underscoreOK(s)
             THEN [ok |-> FALSE, n |-> 0] ELSE r

\* strconv.ParseInt(s, base, 64): ok is FALSE on an error, and n is then 0
ParseInt(s, base) ==
    IF s = <<>> THEN [ok |-> FALSE, n |-> 0]
    ELSE LET un == ParseUint(IF Head(s) \in {"-", "+"} THEN Tail(s) ELSE s, base)
         IN  IF un.ok /\ Head(s) = "-" THEN [ok |-> TRUE, n |-> 0 - un.n] ELSE un

(***************************************************************************)
(* viper: one instance.  Only the parts Loader uses are kept.              *)
(***************************************************************************)
\* viper.SupportedExts, in the order searchInPath tries them
SupportedExts == <<"json", "toml", "yaml", "yml", "properties", "props", "prop",
                   "hcl", "tfvars", "dotenv", "env", "ini">>

SupportedExtSet == { SupportedExts[i] : i \in 1..Len(SupportedExts) }

NoFile == <<>>          \* v.configFile == ""
NoReplacer == <<>>      \* v.envKeyReplacer == nil

\* viper's absPathify(in): a relative path is taken from the working
\* directory and cleaned, so "." and "./" name one directory, written "./"
absPathify(in) == IF in \in {".", "./"} THEN "./" ELSE in

\* v.SetConfigName(in): ignored when empty; forgets the config file in use
SetConfigName(v, in) ==
    IF in # "" THEN [v EXCEPT !.configName = in, !.configFile = <<>>] ELSE v

\* v.AddConfigPath(in): ignored when empty or already in the list
AddConfigPath(v, in) ==
    IF in # "" /\ \A i \in 1..Len(v.configPaths) : v.configPaths[i] # absPathify(in)
    THEN [v EXCEPT !.configPaths = Append(@, absPathify(in))] ELSE v

\* v.SetConfigType(in): ignored when empty
SetConfigType(v, in) == IF in # "" THEN [v EXCEPT !.configType = in] ELSE v

\* v.SetEnvPrefix(in): ignored when empty
SetEnvPrefix(v, in) == IF in # <<>> THEN [v EXCEPT !.envPrefix = in] ELSE v

\* viper.New()
viperNew ==
    [ configName          |-> "config",
      configPaths         |-> <<>>,
      configType          |-> "",
      envPrefix           |-> <<>>,
      envKeyReplacer      |-> NoReplacer,
      automaticEnvApplied |-> FALSE,
      configFile          |-> NoFile,
      config              |-> EmptyMap,
      env                 |-> {} ]

\* getViperWithDefaults: name "config", path "./", type "yaml", replacer "." -> "_"
getViperWithDefaults ==
    [ SetConfigType(AddConfigPath(SetConfigName(viperNew, "config"), "./"), "yaml")
      EXCEPT !.envKeyReplacer = << <<".">>, <<"_">> >> ]

\* mutant of mergeWithEnvPrefix: the name is not upper-cased
mergeWithEnvPrefixAsIs(v, in) ==
    IF v.envPrefix # <<>> THEN v.envPrefix \o <<"_">> \o in ELSE in

\* v.mergeWithEnvPrefix(in)
mergeWithEnvPrefix(v, in) ==
    IF v.envPrefix # <<>> THEN ToUpper(v.envPrefix \o <<"_">> \o in)
    ELSE ToUpper(in)

\* the name v.getEnv(key) hands to os.LookupEnv: the replacer rewrites the
\* whole, already upper-cased name
envLookupName(v, key) ==
    IF v.envKeyReplacer # NoReplacer
    THEN Replace(v.envKeyReplacer[1], v.envKeyReplacer[2], key)
    ELSE key

\* os.LookupEnv(name), and viper's reading of it: an empty value counts as
\* unset (AllowEmptyEnv is off)
LookupEnv(e, name) ==
    [ name |-> name,
      ok   |-> name \in DOMAIN e /\ e[name] # <<>>,
      val  |-> IF name \in DOMAIN e THEN e[name] ELSE <<>> ]

\* v.getEnv(key)
getEnv(v, e, key) == LookupEnv(e, envLookupName(v, key))

\* v.AutomaticEnv()
AutomaticEnv(v) == [v EXCEPT !.automaticEnvApplied = TRUE]

\* mutant of BindEnv: binding a key that is bound already is an error
BindEnvOnce(v, key) ==
    [ v   |-> [v EXCEPT !.env = @ \cup { <<ToLower(key), mergeWithEnvPrefix(v, ToLower(key))>> }],
      err |-> \E q \in v.env : q[1] = ToLower(key) ]

\* v.BindEnv(key) with one argument: binds the lower-cased key to its
\* prefixed upper-case name; fails only when called without a key
BindEnv(v, key) ==
    LET k == ToLower(key)
    IN  [ v   |-> [v EXCEPT !.env = @ \cup { <<k, mergeWithEnvPrefix(v, k)>> }],
          err |-> FALSE ]

\* exists(v.fs, file)
exists(f, slot) == slot \in DOMAIN f /\ f[slot].st # "absent"

\* v.searchInPath(dir) from extension i on: the first supported extension
\* that exists, then the bare name when a config type is set
RECURSIVE searchExt(_, _, _, _)
searchExt(v, f, dir, i) ==
    IF i > Len(SupportedExts)
    THEN IF v.configType # "" /\ exists(f, <<dir, v.configName, "">>)
         THEN [found |-> <<dir, v.configName, "">>,
               stat  |-> { <<dir, v.configName, SupportedExts[j]>> : j \in 1..Len(SupportedExts) }
                         \cup { <<dir, v.configName, "">> }]
         ELSE [found |-> NoFile,
               stat  |-> { <<dir, v.configName, SupportedExts[j]>> : j \in 1..Len(SupportedExts) }
                         \cup (IF v.configType # "" THEN { <<dir, v.configName, "">> } ELSE {})]
    ELSE IF exists(f, <<dir, v.configName, SupportedExts[i]>>)
         THEN [found |-> <<dir, v.configName, SupportedExts[i]>>,
               stat  |-> { <<dir, v.configName, SupportedExts[j]>> : j \in 1..i }]
         ELSE searchExt(v, f, dir, i + 1)

\* v.findConfigFile(): the search paths in order, the first one with a match
\* wins
RECURSIVE findConfigFile(_, _, _)
findConfigFile(v, f, i) ==
    IF i > Len(v.configPaths) THEN [found |-> NoFile, stat |-> {}]
    ELSE LET r    == searchExt(v, f, v.configPaths[i], 1)
             rest == findConfigFile(v, f, i + 1)
         IN  IF r.found # NoFile THEN r
             ELSE [found |-> rest.found, stat |-> r.stat \cup rest.stat]

\* v.getConfigType(): the configured type, else the extension of the file
getConfigType(v) ==
    IF v.configType # "" THEN v.configType
    ELSE IF v.configFile # NoFile THEN v.configFile[3] ELSE ""

\* v.getConfigFile(): searches only while v.configFile is empty; the path
\* found is kept in v.configFile and later calls reuse it
getConfigFile(v, f) ==
    IF v.configFile = NoFile THEN findConfigFile(v, f, 1)
    ELSE [found |-> v.configFile, stat |-> {}]

\* v.ReadInConfig() once getConfigFile has answered, v.configFile set:
\* the type check, afero.ReadFile, the parse, v.config = config
readConfigFile(v, f, file, stat) ==
    IF getConfigType(v) \notin SupportedExtSet
    THEN [v |-> v, err |-> "UnsupportedConfigError", stat |-> stat, read |-> {}]
    ELSE IF ~exists(f, file)
    THEN [v |-> v, err |-> "PathError", stat |-> stat, read |-> {file}]
    ELSE IF f[file].st = "bad"
    THEN [v |-> v, err |-> "ConfigParseError", stat |-> stat, read |-> {file}]
    ELSE [v |-> [v EXCEPT !.config = f[file].data],
          err |-> "", stat |-> stat, read |-> {file}]

\* v.ReadInConfig() by a caller that is alone on the instance
ReadInConfig(v, f) ==
    LET search == getConfigFile(v, f)
    IN  IF search.found = NoFile
        THEN [v |-> v, err |-> "ConfigFileNotFoundError", stat |-> search.stat, read |-> {}]
        ELSE readConfigFile([v EXCEPT !.configFile = search.found], f, search.found,
                            search.stat)


(***************************************************************************)
(* Values as viper hands them to the decoder: ints from the config file,   *)
(* strings from the environment, nil when no source has the key.           *)
(***************************************************************************)
Nil     == [t |-> "nil",    n |-> 0, s |-> <<>>]
IntV(n) == [t |-> "int",    n |-> n, s |-> <<>>]
StrV(s) == [t |-> "string", n |-> 0, s |-> s]

\* v.isPathShadowedInAutoEnv(path): the first parent path whose environment
\* variable is set hides the nested key
firstShadow(r, rest) ==
    IF r.ok THEN [shadowed |-> TRUE, looked |-> { <<r.name, "parent">> }]
    ELSE [shadowed |-> rest.shadowed, looked |-> { <<r.name, "parent">> } \cup rest.looked]

RECURSIVE shadowedFrom(_, _, _, _)
shadowedFrom(v, e, segs, i) ==
    IF i >= Len(segs) THEN [shadowed |-> FALSE, looked |-> {}]
    ELSE firstShadow(getEnv(v, e, mergeWithEnvPrefix(v, JoinDot(segs, i))),
                     shadowedFrom(v, e, segs, i + 1))

isPathShadowedInAutoEnv(v, e, key) == shadowedFrom(v, e, SplitDot(key, <<>>), 1)

\* the environment variables v.find looked up before it reached the config
\* file, each with the role it was looked up in
lookedUp(v, auto, shadow, bound) ==
    (IF v.automaticEnvApplied THEN { <<auto.name, "auto">> } \cup shadow.looked ELSE {})
    \cup { <<b.name, "bound">> : b \in bound }

\* the sources of v.find in the order of the mutant: config file first
findInFileFirst(v, key, auto, shadow, bound) ==
    IF key \in DOMAIN v.config
    THEN [val |-> IntV(v.config[key]), looked |-> {}]
    ELSE IF v.automaticEnvApplied /\ auto.ok
    THEN [val |-> StrV(auto.val), looked |-> { <<auto.name, "auto">> }]
    ELSE [val |-> Nil, looked |-> lookedUp(v, auto, shadow, bound)]

\* the sources of v.find in its order: the automatic environment name, a
\* parent path set in the environment (hides the key), the bound
\* environment names, the config file
findIn(v, key, auto, shadow, bound) ==
    IF v.automaticEnvApplied /\ auto.ok
    THEN [val |-> StrV(auto.val), looked |-> { <<auto.name, "auto">> }]
    ELSE IF v.automaticEnvApplied /\ shadow.shadowed
    THEN [val |-> Nil, looked |-> { <<auto.name, "auto">> } \cup shadow.looked]
    ELSE IF \E b \in bound : b.ok
    THEN [val    |-> StrV((CHOOSE b \in bound : b.ok).val),
          looked |-> lookedUp(v, auto, shadow, bound)]
    ELSE [val    |-> IF key \in DOMAIN v.config THEN IntV(v.config[key]) ELSE Nil,
          looked |-> lookedUp(v, auto, shadow, bound)]

\* v.find(key); the last argument is the environment variables bound to the
\* key (v.env[key]), looked up
find(v, e, key) ==
    findIn(v, key, getEnv(v, e, mergeWithEnvPrefix(v, key)),
           isPathShadowedInAutoEnv(v, e, key),
           { getEnv(v, e, p[2]) : p \in { q \in v.env : q[1] = key } })

\* v.AllKeys(): the keys of the config file and the keys bound to the environment
AllKeys(v) == DOMAIN v.config \cup { p[1] : p \in v.env }

\* v.AllSettings(): every key whose value is not nil
settingsOf(got) == [ k \in { x \in DOMAIN got : got[x].val # Nil } |-> got[k].val ]

\* mapstructure's weakly typed decode into an int field
decodeInt(val) ==
    IF val.t = "int" THEN [ok |-> TRUE, n |-> val.n]
    ELSE IF val.s = <<>> THEN [ok |-> TRUE, n |-> 0]
    ELSE ParseInt(val.s, 0)

\* v.Unmarshal(config): decodes the settings into the struct; a field with
\* no setting keeps its value, a field whose value does not decode keeps its
\* value and makes the call fail, the other fields are still set
decode(settings, t) ==
    [ t   |-> [ p \in DOMAIN t |->
                  IF ToLower(p) \in DOMAIN settings /\ decodeInt(settings[ToLower(p)]).ok
                  THEN decodeInt(settings[ToLower(p)]).n
                  ELSE t[p] ],
      err |-> \E p \in DOMAIN t :
                  ToLower(p) \in DOMAIN settings /\ ~decodeInt(settings[ToLower(p)]).ok ]

\* the decode of what v.Get answered for the keys of AllKeys
unmarshalGot(got, t) ==
    [ t      |-> decode(settingsOf(got), t).t,
      err    |-> decode(settingsOf(got), t).err,
      looked |-> UNION { { <<k, n[1], n[2]>> : n \in got[k].looked } : k \in DOMAIN got } ]

\* v.Unmarshal(config) by a caller that is alone on the instance
Unmarshal(v, e, t) == unmarshalGot([ k \in AllKeys(v) |-> find(v, e, k) ], t)

(***************************************************************************)
(* The caller's struct type: a sequence of fields, each a leaf (an int,    *)
(* with its `default` tag, <<>> when it has none) or a nested struct.      *)
(***************************************************************************)
Range(s) == { s[i] : i \in 1..Len(s) }

\* mapstructure.Decode + flatten.Flatten(DotStyle): the dot-joined field
\* names of the leaves
RECURSIVE flattenFields(_, _)
flattenFields(fields, prefix) ==
    UNION { IF f.leaf THEN { prefix \o f.name }
            ELSE flattenFields(f.sub, prefix \o f.name \o <<".">>) : f \in Range(fields) }

getFlattenedStructKeys(sch) == [keys |-> flattenFields(sch, <<>>), err |-> FALSE]

\* the `default` tags of the leaves, by flattened path
RECURSIVE defaultTags(_, _)
defaultTags(fields, prefix) ==
    UNION { IF f.leaf THEN { <<prefix \o f.name, f.def>> }
            ELSE defaultTags(f.sub, prefix \o f.name \o <<".">>) : f \in Range(fields) }

defaultTag(sch, p) == (CHOOSE d \in defaultTags(sch, <<>>) : d[1] = p)[2]

\* mutant of setDefaultValue: a tagged field is always set
setDefaultValueAlways(tag, val) ==
    IF tag # <<>> THEN ParseInt(tag, 10).n ELSE val

\* go-defaults on one int field: a tagged field is set only while it is empty
setDefaultValue(tag, val) ==
    IF tag # <<>> /\ val = 0 THEN ParseInt(tag, 10).n ELSE val

\* defaults.SetDefaults(config)
SetDefaults(sch, t) == [ p \in DOMAIN t |-> setDefaultValue(defaultTag(sch, p), t[p]) ]

\* the zero value of the struct
ZeroTarget(sch) == [ p \in flattenFields(sch, <<>>) |-> 0 ]

(***************************************************************************)
(* Loader.Load.                                                            *)
(***************************************************************************)
TargetKinds == {"ptr-struct", "struct", "ptr-int", "nil-ptr", "nil"}

\* mutant of verifyParamIsPtrToStructElsePanic: only the outer kind is checked
verifyParamIsPtr(kind) == kind \notin {"ptr-struct", "ptr-int", "nil-ptr"}

\* verifyParamIsPtrToStructElsePanic: reflect.Kind of the value, then of
\* what it points to (Invalid for a nil pointer and for nil)
verifyParamIsPtrToStructElsePanic(kind) ==
    LET valueKind    == CASE kind = "ptr-struct" -> "ptr" [] kind = "ptr-int" -> "ptr"
                          [] kind = "nil-ptr" -> "ptr" [] kind = "struct" -> "struct"
                          [] OTHER -> "invalid"
        indirectKind == CASE kind = "ptr-struct" -> "struct" [] kind = "ptr-int" -> "int"
                          [] OTHER -> "invalid"
    IN  IF valueKind # "ptr" THEN TRUE
        ELSE indirectKind # "struct"

NoIO == [stat |-> {}, read |-> {}, looked |-> {}]

\* the loop over configKeys: BindEnv for every key, stopping at an error
RECURSIVE bindAll(_, _)
bindAll(v, keys) ==
    IF keys = {} THEN [v |-> v, err |-> FALSE]
    ELSE LET k == CHOOSE x \in keys : TRUE
         IN  IF BindEnv(v, k).err THEN BindEnv(v, k) ELSE bindAll(BindEnv(v, k).v, keys \ {k})

\* Loader.Load(config) as one call, by a Loader that is alone on its
\* instance.  t is the memory the target points to (the struct's fields);
\* r is what ReadInConfig answered, b what the loop of BindEnv did, u what
\* Unmarshal answered.
loadDecoded(r, b, u) ==
    [ v |-> b.v, t |-> u.t, err |-> IF u.err THEN "Decode" ELSE "", cause |-> r.err,
      io |-> [stat |-> r.stat, read |-> r.read, looked |-> u.looked] ]

loadBound(r, b, e, sch, t) ==
    IF b.err
    THEN [v |-> b.v, t |-> t, err |-> "BindEnv", cause |-> r.err,
          io |-> [stat |-> r.stat, read |-> r.read, looked |-> {}]]
    ELSE loadDecoded(r, b, Unmarshal(b.v, e, SetDefaults(sch, t)))

loadAfterRead(r, e, sch, t) ==
    IF r.err \notin {"", "ConfigFileNotFoundError"} \/ getFlattenedStructKeys(sch).err
    THEN [v |-> r.v, t |-> t,
          err |-> IF r.err \notin {"", "ConfigFileNotFoundError"} THEN "ReadConfig"
                  ELSE "FlattenKeys",
          cause |-> r.err, io |-> [stat |-> r.stat, read |-> r.read, looked |-> {}]]
    ELSE loadBound(r, bindAll(r.v, getFlattenedStructKeys(sch).keys), e, sch, t)

Load(v, f, e, sch, kind, t) ==
    IF verifyParamIsPtrToStructElsePanic(kind)
    THEN [v |-> v, t |-> t, err |-> "InvalidTarget", cause |-> "", io |-> NoIO]
    ELSE loadAfterRead(ReadInConfig(AutomaticEnv(v), f), e, sch, t)

(***************************************************************************)
(* Loader construction.  `vs` is the pool of viper instances, `ld` the     *)
(* Loader under construction ([v |-> id of its viper instance]).           *)
(***************************************************************************)
ExtViper == 0           \* id of the instance the caller made with viper.New()

WithViper(in)              == [op |-> "WithViper",         id |-> in,       str |-> "", a |-> <<>>, b |-> <<>>]
WithConfigName(in)         == [op |-> "WithConfigName",    id |-> ExtViper, str |-> in, a |-> <<>>, b |-> <<>>]
WithConfigPath(in)         == [op |-> "WithConfigPath",    id |-> ExtViper, str |-> in, a |-> <<>>, b |-> <<>>]
WithConfigType(in)         == [op |-> "WithConfigType",    id |-> ExtViper, str |-> in, a |-> <<>>, b |-> <<>>]
WithEnvPrefix(in)          == [op |-> "WithEnvPrefix",     id |-> ExtViper, str |-> "", a |-> in,   b |-> <<>>]
WithEnvKeyReplacer(old, new) == [op |-> "WithEnvKeyReplacer", id |-> ExtViper, str |-> "", a |-> old, b |-> new]

\* one LoaderOption applied to the Loader: WithViper repoints the Loader,
\* every other option changes the instance the Loader points to at that moment
applyOption(st, o) ==
    LET v == st.ld.v
    IN  CASE o.op = "WithViper" ->
               [st EXCEPT !.ld.v = o.id]
          [] o.op = "WithConfigName" ->
               [st EXCEPT !.vs[v] = SetConfigName(@, o.str)]
          [] o.op = "WithConfigPath" ->
               [st EXCEPT !.vs[v] = AddConfigPath(@, o.str)]
          [] o.op = "WithConfigType" ->
               [st EXCEPT !.vs[v] = SetConfigType(@, o.str)]
          [] o.op = "WithEnvPrefix" ->
               [st EXCEPT !.vs[v] = SetEnvPrefix(@, o.a)]
          [] o.op = "WithEnvKeyReplacer" ->
               [st EXCEPT !.vs[v].envKeyReplacer = <<o.a, o.b>>]

RECURSIVE applyOptions(_, _)
applyOptions(st, options) ==
    IF options = <<>> THEN st
    ELSE applyOptions(applyOption(st, Head(options)), Tail(options))

\* mutant of ownViper: every Loader starts from one package-level instance
packageViper(l) == 3

\* the instance NewLoader makes for Loader l: a fresh one of its own
ownViper(l) == l

\* NewLoader(options...): a Loader on a fresh default instance, then the
\* options in order
NewLoader(vs, l, options) ==
    applyOptions([vs |-> (ownViper(l) :> getViperWithDefaults) @@ vs,
                  ld |-> [v |-> ownViper(l)]],
                 options)

\* the instance Loader l would hold had no other Loader been built or run
soloViper(l, options) ==
    NewLoader((ExtViper :> viperNew), l, options).vs[
        NewLoader((ExtViper :> viperNew), l, options).ld.v]

(***************************************************************************)
(* The world and the inputs of the model.                                  *)
(***************************************************************************)
TheSchema ==
    << [name |-> <<"S">>, leaf |-> FALSE, def |-> <<>>,
        sub |-> << [name |-> <<"P">>, leaf |-> TRUE, def |-> <<"8">>, sub |-> <<>>] >>],
       [name |-> <<"H">>, leaf |-> TRUE, def |-> <<>>, sub |-> <<>>] >>

Absent == [st |-> "absent", data |-> EmptyMap]
Bad    == [st |-> "bad",    data |-> EmptyMap]
FileA  == [st |-> "ok",     data |-> (<<"s", ".", "p">> :> 5)]
FileB  == [st |-> "ok",     data |-> (<<"s", ".", "p">> :> 0 @@ <<"h">> :> 7)]

FileContents == {Bad, FileA, FileB}

FileSlots == { <<"./", "config", "yaml">>, <<"d2", "config", "yaml">>,
               <<"./", "config", "json">>, <<"./", "app", "yaml">> }

\* the files the single-Loader specification creates and removes
EditSlots == { s \in FileSlots : s[2] = "config" }

EmptyFS == [ s \in FileSlots |-> Absent ]

\* the environment variables the model sets, with the values it gives them
EnvChoices ==
    { <<<<"X", "_", "S", "_", "P">>, val>> : val \in { <<>>, <<"7">>, <<"0">>, <<"x">> } }
    \cup { << <<"X", "_", "H">>, <<"1">> >>, << <<"X", "_", "S">>, <<"1">> >> }

\* the options of the Loader of the single-Loader specification
MainOptions == << WithConfigPath("d2"), WithEnvPrefix(<<"x">>) >>

PrepopTarget == (<<"S", ".", "P">> :> 1 @@ <<"H">> :> 1)

\* the locals of a Load call in flight: who called getConfigFile ("name" for
\* ReadInConfig, "type" for getConfigType); the search paths findConfigFile
\* ranges over (paths), the one searchInPath is in (dir) and the extension it
\* is at (ext, one past the last for the bare name); the path found (cf); the
\* getConfigType call ReadInConfig is at (stage), its filename, the bytes it
\* read (file) and the map it parsed (config); the keys Load has still to
\* bind or AllSettings has still to get (keys) and the values got so far
NoLocals ==
    [ ret |-> "", paths |-> <<>>, dir |-> 0, ext |-> 0, stage |-> 0, cf |-> NoFile,
      filename |-> NoFile, file |-> Absent, config |-> EmptyMap, keys |-> {},
      got |-> EmptyMap ]

NoCall ==
    [ n |-> 0, kind |-> "", tin |-> EmptyMap, t |-> EmptyMap, err |-> "", cause |-> "",
      io |-> NoIO, vpre |-> viperNew, fs |-> EmptyFS, env |-> EmptyMap, at |-> NoLocals ]

NoSolo == [v |-> viperNew, t |-> EmptyMap, err |-> ""]

\* what the rest of the module holds while the Loader runs
IdleLogger == [level |-> "info", entries |-> <<>>, last |-> "none"]
IdleHelp   == [phase |-> "none"]


(***************************************************************************)
(* Actions of the Loader.  Nothing in Load or in viper is synchronised, so *)
(* a Load call is a sequence of steps, each one access to the viper        *)
(* instance, and pc[l] is the step the call of Loader l is at:             *)
(*   "find"    getConfigFile tests v.configFile                            *)
(*   "paths"   findConfigFile reads v.configPaths to range over it         *)
(*   "stat"    searchInPath reads v.configName and asks for one file       *)
(*   "ctype"   searchInPath tests v.configType after the last extension    *)
(*   "hit"     searchInPath reads v.configName for the path it returns     *)
(*   "setfile" getConfigFile writes v.configFile                           *)
(*   "file"    getConfigFile returns v.configFile                          *)
(*   "type"    getConfigType reads v.configType                            *)
(*   "store"   ReadInConfig writes v.config                                *)
(*   "bind"    BindEnv of one key (lines 103-108)                          *)
(*   "keys"    SetDefaults (line 111), then AllKeys of Unmarshal (113)     *)
(*   "get"     Get of one key; the decode follows the last one             *)
(* A call that returns goes back to "idle".                                *)
(***************************************************************************)
viperOf(l) == vipers[loaders[l].v]

AllIdle == \A l \in DOMAIN pc : pc[l] = "idle"

Done(l) == l \in DOMAIN loaders /\ pc[l] = "idle" /\ cur[l].n > 0

\* Load is entered with `kind` of argument and `tin` in the struct it points
\* to: lines 86-90, the check of the argument and AutomaticEnv.  solo[l] is
\* the same call made by the Loader run alone.
beginCall(l, kind, tin, bad, s) ==
    /\ prev' = [prev EXCEPT ![l] = cur[l]]
    /\ cur'  = [cur EXCEPT ![l] =
                  [ n |-> cur[l].n + 1, kind |-> kind, tin |-> tin, t |-> tin,
                    err |-> IF bad THEN "InvalidTarget" ELSE "", cause |-> "",
                    io |-> NoIO, vpre |-> viperOf(l), fs |-> fs, env |-> env,
                    at |-> IF bad THEN NoLocals ELSE [NoLocals EXCEPT !.ret = "name"] ]]
    /\ pc'   = [pc EXCEPT ![l] = IF bad THEN "idle" ELSE "find"]
    /\ vipers' = IF bad THEN vipers
                 ELSE [vipers EXCEPT ![loaders[l].v] = AutomaticEnv(@)]
    /\ solo' = [solo EXCEPT ![l] = [v |-> s.v, t |-> s.t, err |-> s.err]]

LoadBegin(l, kind, tin) ==
    /\ l \in DOMAIN loaders
    /\ pc[l] = "idle"
    /\ cur[l].n < MaxCalls
    /\ beginCall(l, kind, tin, verifyParamIsPtrToStructElsePanic(kind),
                 Load(solo[l].v, fs, env, schema, kind, tin))
    /\ UNCHANGED <<fs, env, schema, loaders, edits, logger, help>>

\* the targets a caller passes: a fresh struct, the struct of its previous
\* call, a struct it filled beforehand
TargetInputs(l) ==
    {ZeroTarget(schema), PrepopTarget} \cup (IF cur[l].n > 0 THEN {cur[l].t} ELSE {})

LoadAny(l) ==
    \E kind \in TargetKinds :
        \E tin \in (IF kind = "ptr-struct" THEN TargetInputs(l) ELSE {ZeroTarget(schema)}) :
            LoadBegin(l, kind, tin)

LoadFresh(l) == LoadBegin(l, "ptr-struct", ZeroTarget(schema))

\* Load returns err; the locals of the call end with it
returned(c, err) == [c EXCEPT !.err = err, !.at = NoLocals]

\* lines 92-96: ReadInConfig returned an error that Load does not swallow
readFailed(c, cause) ==
    [c |-> returned([c EXCEPT !.cause = cause], "ReadConfig"), pc |-> "idle"]

\* lines 98-103: the keys of the struct, which the loop of line 103 takes
\* one by one
toBind(c, ks) ==
    IF ks.err THEN [c |-> returned(c, "FlattenKeys"), pc |-> "idle"]
    ELSE [c  |-> [c EXCEPT !.at = [NoLocals EXCEPT !.keys = ks.keys]],
          pc |-> IF ks.keys = {} THEN "keys" ELSE "bind"]

\* ReadInConfig once getConfigType has answered t.  Stage 1 is the test of
\* the type, followed by afero.ReadFile(filename); stage 2 is the parse of
\* the bytes read (viper parses nothing and reports nothing when it knows no
\* parser for t); stage 3 is the call that names the type in the error.
afterType(c, t, f) ==
    CASE c.at.stage = 1 ->
           IF t \notin SupportedExtSet
           THEN [c |-> [c EXCEPT !.at.stage = 3], pc |-> "type"]
           ELSE IF ~exists(f, c.at.filename)
           THEN readFailed([c EXCEPT !.io.read = @ \cup (IF c.at.filename = NoFile THEN {}
                                                        ELSE {c.at.filename})],
                           "PathError")
           ELSE [c  |-> [c EXCEPT !.io.read = @ \cup {c.at.filename},
                                  !.at.file = f[c.at.filename], !.at.stage = 2],
                 pc |-> "type"]
      [] c.at.stage = 2 ->
           IF t \in SupportedExtSet /\ c.at.file.st = "bad"
           THEN readFailed(c, "ConfigParseError")
           ELSE [c  |-> [c EXCEPT !.at.config = IF t \in SupportedExtSet
                                                THEN c.at.file.data ELSE EmptyMap],
                 pc |-> "store"]
      [] OTHER -> readFailed(c, "UnsupportedConfigError")

\* getConfigFile has answered its caller: ReadInConfig, which returns the
\* error of the search (swallowed by Load, line 93) or goes on with the
\* filename, or getConfigType, which answers the extension of the file
afterConfigFile(c, file, notFound, f, sch) ==
    IF c.at.ret = "name"
    THEN IF notFound
         THEN toBind([c EXCEPT !.cause = "ConfigFileNotFoundError"],
                     getFlattenedStructKeys(sch))
         ELSE [c |-> [c EXCEPT !.at.filename = file, !.at.stage = 1], pc |-> "type"]
    ELSE afterType(c, IF notFound \/ file = NoFile THEN "" ELSE file[3], f)

\* the call of Loader l goes on as r says
step(l, r) ==
    /\ cur' = [cur EXCEPT ![l] = r.c]
    /\ pc'  = [pc EXCEPT ![l] = r.pc]

\* getConfigFile: `if v.configFile == ""`; findConfigFile is called when it is
LoadFind(l) ==
    /\ l \in DOMAIN loaders
    /\ pc[l] = "find"
    /\ pc' = [pc EXCEPT ![l] = IF viperOf(l).configFile # NoFile THEN "file" ELSE "paths"]
    /\ UNCHANGED <<fs, env, schema, vipers, loaders, cur, prev, solo, edits, logger, help>>

\* findConfigFile goes to search path i of those it ranges over, or has none
\* left and returns ConfigFileNotFoundError
searchFrom(c, i, f, sch) ==
    IF i > Len(c.at.paths)
    THEN afterConfigFile([c EXCEPT !.at.paths = <<>>, !.at.dir = 0, !.at.ext = 0],
                         NoFile, TRUE, f, sch)
    ELSE [c |-> [c EXCEPT !.at.dir = i, !.at.ext = 1], pc |-> "stat"]

\* findConfigFile: `for _, cp := range v.configPaths`, which reads the list
\* once
LoadPaths(l) ==
    /\ l \in DOMAIN loaders
    /\ pc[l] = "paths"
    /\ step(l, searchFrom([cur[l] EXCEPT !.at.paths = viperOf(l).configPaths], 1,
                          fs, schema))
    /\ UNCHANGED <<fs, env, schema, vipers, loaders, prev, solo, edits, logger, help>>

\* searchInPath: `exists(v.fs, filepath.Join(in, v.configName+"."+ext))` for
\* the extension it is at, or `exists(v.fs, filepath.Join(in, v.configName))`
\* after the last; the name is read from the instance for every file
LoadStat(l) ==
    /\ l \in DOMAIN loaders
    /\ pc[l] = "stat"
    /\ LET j    == cur[l].at.ext
           slot == << cur[l].at.paths[cur[l].at.dir], viperOf(l).configName,
                      IF j > Len(SupportedExts) THEN "" ELSE SupportedExts[j] >>
           c    == [cur[l] EXCEPT !.io.stat = @ \cup {slot}]
       IN  step(l, IF exists(fs, slot) THEN [c |-> c, pc |-> "hit"]
                   ELSE IF j < Len(SupportedExts)
                   THEN [c |-> [c EXCEPT !.at.ext = j + 1], pc |-> "stat"]
                   ELSE IF j = Len(SupportedExts) THEN [c |-> c, pc |-> "ctype"]
                   ELSE searchFrom(c, c.at.dir + 1, fs, schema))
    /\ UNCHANGED <<fs, env, schema, vipers, loaders, prev, solo, edits, logger, help>>

\* searchInPath: `if v.configType != ""` once no extension matched
LoadConfigType(l) ==
    /\ l \in DOMAIN loaders
    /\ pc[l] = "ctype"
    /\ step(l, IF viperOf(l).configType # ""
               THEN [c |-> [cur[l] EXCEPT !.at.ext = Len(SupportedExts) + 1], pc |-> "stat"]
               ELSE searchFrom(cur[l], cur[l].at.dir + 1, fs, schema))
    /\ UNCHANGED <<fs, env, schema, vipers, loaders, prev, solo, edits, logger, help>>

\* searchInPath: `return filepath.Join(in, v.configName+"."+ext)`, the name
\* read from the instance once more
LoadHit(l) ==
    /\ l \in DOMAIN loaders
    /\ pc[l] = "hit"
    /\ step(l, [c  |-> [cur[l] EXCEPT !.at.cf =
                          << cur[l].at.paths[cur[l].at.dir], viperOf(l).configName,
                             IF cur[l].at.ext > Len(SupportedExts) THEN ""
                             ELSE SupportedExts[cur[l].at.ext] >>,
                                    !.at.paths = <<>>, !.at.dir = 0, !.at.ext = 0],
                pc |-> "setfile"])
    /\ UNCHANGED <<fs, env, schema, vipers, loaders, prev, solo, edits, logger, help>>

\* getConfigFile: `v.configFile = cf`
LoadSetFile(l) ==
    /\ l \in DOMAIN loaders
    /\ pc[l] = "setfile"
    /\ vipers' = [vipers EXCEPT ![loaders[l].v].configFile = cur[l].at.cf]
    /\ pc' = [pc EXCEPT ![l] = "file"]
    /\ UNCHANGED <<fs, env, schema, loaders, cur, prev, solo, edits, logger, help>>

\* getConfigFile: `return v.configFile, nil`
LoadFile(l) ==
    /\ l \in DOMAIN loaders
    /\ pc[l] = "file"
    /\ step(l, afterConfigFile(cur[l], viperOf(l).configFile, FALSE, fs, schema))
    /\ UNCHANGED <<fs, env, schema, vipers, loaders, prev, solo, edits, logger, help>>

\* getConfigType: the configured type, else the extension of getConfigFile()
LoadType(l) ==
    /\ l \in DOMAIN loaders
    /\ pc[l] = "type"
    /\ step(l, IF viperOf(l).configType # ""
               THEN afterType(cur[l], viperOf(l).configType, fs)
               ELSE [c |-> [cur[l] EXCEPT !.at.ret = "type"], pc |-> "find"])
    /\ UNCHANGED <<fs, env, schema, vipers, loaders, prev, solo, edits, logger, help>>

\* mutant of readDone: the declared defaults are applied when the file is read
readDoneWithDefaults(l, r) ==
    /\ vipers' = [vipers EXCEPT ![loaders[l].v].config = cur[l].at.config]
    /\ step(l, [r EXCEPT !.c.t = SetDefaults(schema, @)])

\* the end of ReadInConfig: `v.config = config`
readDone(l, r) ==
    /\ vipers' = [vipers EXCEPT ![loaders[l].v].config = cur[l].at.config]
    /\ step(l, r)

LoadStore(l) ==
    /\ l \in DOMAIN loaders
    /\ pc[l] = "store"
    /\ readDone(l, toBind(cur[l], getFlattenedStructKeys(schema)))
    /\ UNCHANGED <<fs, env, schema, loaders, prev, solo, edits, logger, help>>

\* one turn of the loop of line 103; the keys come in the order of a map
\* iteration (getFlattenedStructKeys, lines 153-155)
LoadBind(l) ==
    /\ l \in DOMAIN loaders
    /\ pc[l] = "bind"
    /\ \E k \in cur[l].at.keys :
          /\ vipers' = [vipers EXCEPT ![loaders[l].v] = BindEnv(@, k).v]
          /\ step(l, IF BindEnv(viperOf(l), k).err
                     THEN [c |-> returned(cur[l], "BindEnv"), pc |-> "idle"]
                     ELSE [c  |-> [cur[l] EXCEPT !.at.keys = @ \ {k}],
                           pc |-> IF cur[l].at.keys = {k} THEN "keys" ELSE "bind"])
    /\ UNCHANGED <<fs, env, schema, loaders, prev, solo, edits, logger, help>>

\* lines 113-116: AllSettings has got every key and the settings are decoded
decodeDone(c, u) ==
    [c  |-> returned([c EXCEPT !.t = u.t, !.io.looked = u.looked],
                     IF u.err THEN "Decode" ELSE ""),
     pc |-> "idle"]

\* line 111 and the start of Unmarshal: the defaults, then v.AllKeys()
LoadKeys(l) ==
    /\ l \in DOMAIN loaders
    /\ pc[l] = "keys"
    /\ LET c == [cur[l] EXCEPT !.t = SetDefaults(schema, @)]
       IN  step(l, IF AllKeys(viperOf(l)) = {} THEN decodeDone(c, unmarshalGot(EmptyMap, c.t))
                   ELSE [c  |-> [c EXCEPT !.at.keys = AllKeys(viperOf(l)), !.at.got = EmptyMap],
                         pc |-> "get"])
    /\ UNCHANGED <<fs, env, schema, vipers, loaders, prev, solo, edits, logger, help>>

\* AllSettings: v.Get(k) for the next key, in the order of a map iteration
LoadGet(l) ==
    /\ l \in DOMAIN loaders
    /\ pc[l] = "get"
    /\ \E k \in cur[l].at.keys :
          LET got == (k :> find(viperOf(l), env, k)) @@ cur[l].at.got
          IN  step(l, IF cur[l].at.keys = {k} THEN decodeDone(cur[l], unmarshalGot(got, cur[l].t))
                      ELSE [c  |-> [cur[l] EXCEPT !.at.keys = @ \ {k}, !.at.got = got],
                            pc |-> "get"])
    /\ UNCHANGED <<fs, env, schema, vipers, loaders, prev, solo, edits, logger, help>>

\* a Loader as the model keeps it: the id of its instance, the instances its
\* options hand over, the options NewLoader has still to apply, and whether
\* the first of them is half done
loaderOf(st, options, todo) ==
    [ v |-> st.ld.v,
      given |-> { o.id : o \in { x \in Range(options) : x.op = "WithViper" } },
      todo |-> todo, half |-> FALSE ]

\* NewLoader(options...) is entered for a Loader not built yet: lines 72-74,
\* the Loader on a fresh default instance
Build(l, options) ==
    /\ l \in DOMAIN pc
    /\ l \notin DOMAIN loaders
    /\ pc[l] = "idle"
    /\ vipers'  = NewLoader(vipers, l, <<>>).vs
    /\ loaders' = (l :> loaderOf(NewLoader(vipers, l, <<>>), options, options)) @@ loaders
    /\ solo'    = [solo EXCEPT ![l] = [v |-> soloViper(l, options), t |-> EmptyMap,
                                       err |-> ""]]
    /\ pc'      = [pc EXCEPT ![l] = IF options = <<>> THEN "idle" ELSE "option"]
    /\ UNCHANGED <<fs, env, schema, cur, prev, edits, logger, help>>

\* one access of option o to the instance: SetConfigName writes v.configName
\* and then v.configFile, AddConfigPath tests the list and then appends to
\* it, every other option is one write
optionStep(vs, ld, o) ==
    CASE o.op = "WithConfigName" /\ o.str # "" /\ ~ld.half ->
           [vs |-> [vs EXCEPT ![ld.v].configName = o.str], v |-> ld.v, half |-> TRUE]
      [] o.op = "WithConfigName" /\ o.str # "" /\ ld.half ->
           [vs |-> [vs EXCEPT ![ld.v].configFile = NoFile], v |-> ld.v, half |-> FALSE]
      [] o.op = "WithConfigPath" /\ ~ld.half ->
           [vs |-> vs, v |-> ld.v,
            half |-> AddConfigPath(vs[ld.v], o.str) # vs[ld.v]]
      [] o.op = "WithConfigPath" /\ ld.half ->
           [vs |-> [vs EXCEPT ![ld.v].configPaths = Append(@, absPathify(o.str))],
            v |-> ld.v, half |-> FALSE]
      [] OTHER ->
           [vs |-> applyOption([vs |-> vs, ld |-> [v |-> ld.v]], o).vs,
            v  |-> applyOption([vs |-> vs, ld |-> [v |-> ld.v]], o).ld.v, half |-> FALSE]

\* NewLoader applies its next option: lines 76-78, one turn of the loop,
\* access by access.  The option writes the instance the Loader points to
\* at that moment, whatever another Loader is doing with that instance.
Option(l) ==
    /\ l \in DOMAIN loaders
    /\ pc[l] = "option"
    /\ LET r == optionStep(vipers, loaders[l], Head(loaders[l].todo))
       IN  /\ vipers'  = r.vs
           /\ loaders' = [loaders EXCEPT ![l].v = r.v, ![l].half = r.half,
                                         ![l].todo = IF r.half THEN @ ELSE Tail(@)]
           /\ pc' = [pc EXCEPT ![l] = IF ~r.half /\ Tail(loaders[l].todo) = <<>>
                                      THEN "idle" ELSE "option"]
    /\ UNCHANGED <<fs, env, schema, cur, prev, solo, edits, logger, help>>

\* Two Load calls on one instance are not synchronised.  BindEnv (lines
\* 104-108) writes the map v.env that the BindEnv and the Unmarshal (line
\* 113) of the other call use: besides every interleaving of the steps, the
\* runtime may stop the process ("concurrent map writes", "concurrent map
\* read and map write").  No Loader returns after that.
Fault(l, m) ==
    /\ l \in DOMAIN loaders /\ m \in DOMAIN loaders /\ l # m
    /\ loaders[l].v = loaders[m].v
    /\ pc[l] = "bind" /\ pc[m] \in {"bind", "keys", "get"}
    /\ pc' = [k \in DOMAIN pc |-> "fault"]
    /\ UNCHANGED <<fs, env, schema, vipers, loaders, cur, prev, solo, edits, logger, help>>

\* the world changes between Load calls
WriteFile(slot, content) ==
    /\ AllIdle /\ edits < MaxEdits
    /\ fs[slot] # content
    /\ fs' = [fs EXCEPT ![slot] = content]
    /\ edits' = edits + 1
    /\ UNCHANGED <<env, schema, vipers, loaders, pc, cur, prev, solo, logger, help>>

RemoveFile(slot) ==
    /\ AllIdle /\ edits < MaxEdits
    /\ fs[slot] # Absent
    /\ fs' = [fs EXCEPT ![slot] = Absent]
    /\ edits' = edits + 1
    /\ UNCHANGED <<env, schema, vipers, loaders, pc, cur, prev, solo, logger, help>>

Setenv(name, val) ==
    /\ AllIdle /\ edits < MaxEdits
    /\ ~(name \in DOMAIN env /\ env[name] = val)
    /\ env' = [ x \in DOMAIN env \cup {name} |-> IF x = name THEN val ELSE env[x] ]
    /\ edits' = edits + 1
    /\ UNCHANGED <<fs, schema, vipers, loaders, pc, cur, prev, solo, logger, help>>

Unsetenv(name) ==
    /\ AllIdle /\ edits < MaxEdits
    /\ name \in DOMAIN env
    /\ env' = [ x \in DOMAIN env \ {name} |-> env[x] ]
    /\ edits' = edits + 1
    /\ UNCHANGED <<fs, schema, vipers, loaders, pc, cur, prev, solo, logger, help>>

(***************************************************************************)
(* Spec: one Loader, NewLoader(WithConfigPath("d2"), WithEnvPrefix("x")),  *)
(* called repeatedly while files and environment variables come and go.    *)
(***************************************************************************)
Init ==
    /\ fs = EmptyFS
    /\ env = EmptyMap
    /\ schema = TheSchema
    /\ vipers = NewLoader((ExtViper :> viperNew), 1, MainOptions).vs
    /\ loaders = (1 :> loaderOf(NewLoader((ExtViper :> viperNew), 1, MainOptions),
                                MainOptions, <<>>))
    /\ pc = (1 :> "idle")
    /\ cur = (1 :> NoCall)
    /\ prev = (1 :> NoCall)
    /\ solo = (1 :> [v |-> soloViper(1, MainOptions), t |-> EmptyMap, err |-> ""])
    /\ edits = 0
    /\ logger = IdleLogger
    /\ help = IdleHelp

Next ==
    \/ \E l \in DOMAIN pc : LoadAny(l)
    \/ \E l \in DOMAIN pc : LoadFind(l)
    \/ \E l \in DOMAIN pc : LoadPaths(l)
    \/ \E l \in DOMAIN pc : LoadStat(l)
    \/ \E l \in DOMAIN pc : LoadConfigType(l)
    \/ \E l \in DOMAIN pc : LoadHit(l)
    \/ \E l \in DOMAIN pc : LoadSetFile(l)
    \/ \E l \in DOMAIN pc : LoadFile(l)
    \/ \E l \in DOMAIN pc : LoadType(l)
    \/ \E l \in DOMAIN pc : LoadStore(l)
    \/ \E l \in DOMAIN pc : LoadBind(l)
    \/ \E l \in DOMAIN pc : LoadKeys(l)
    \/ \E l \in DOMAIN pc : LoadGet(l)
    \/ \E slot \in EditSlots, content \in FileContents : WriteFile(slot, content)
    \/ \E slot \in EditSlots : RemoveFile(slot)
    \/ \E c \in EnvChoices : Setenv(c[1], c[2])
    \/ \E c \in EnvChoices : Unsetenv(c[1])

Spec == Init /\ [][Next]_vars

(***************************************************************************)
(* SpecEnvName: one Loader built with a choice of WithEnvPrefix and        *)
(* WithEnvKeyReplacer, loading one of two structs from the environment.    *)
(***************************************************************************)
DeepSchema ==
    << [name |-> <<"a">>, leaf |-> FALSE, def |-> <<>>,
        sub |-> << [name |-> <<"b">>, leaf |-> FALSE, def |-> <<>>,
                    sub |-> << [name |-> <<"c">>, leaf |-> TRUE, def |-> <<"5">>,
                                sub |-> <<>>] >>] >>] >>

PrefixOptions ==
    { <<>>, << WithEnvPrefix(<<"x">>) >>, << WithEnvPrefix(<<"a", "-", "b">>) >> }

ReplacerOptions ==
    { <<>>, << WithEnvKeyReplacer(<<"-">>, <<"_">>) >>,
      << WithEnvKeyReplacer(<<"s">>, <<"x">>) >>, << WithEnvKeyReplacer(<<"_">>, <<"-">>) >> }

EnvNameOptions == { p \o r : p \in PrefixOptions, r \in ReplacerOptions }

EnvNameEnvs ==
    { EmptyMap,
      (<<"X", "_", "A", "_", "B", "_", "C">> :> <<"7">>) @@ (<<"S", "_", "P">> :> <<"7">>) }

\* the files of the specification: none, or ./config.yaml
EnvNameFiles == { EmptyFS, [EmptyFS EXCEPT ![<<"./", "config", "yaml">>] = FileA] }

InitEnvName ==
    /\ fs \in EnvNameFiles
    /\ env \in EnvNameEnvs
    /\ schema \in {TheSchema, DeepSchema}
    /\ \E options \in EnvNameOptions :
          /\ vipers = NewLoader((ExtViper :> viperNew), 1, options).vs
          /\ loaders = (1 :> loaderOf(NewLoader((ExtViper :> viperNew), 1, options),
                                      options, <<>>))
          /\ solo = (1 :> [v |-> soloViper(1, options), t |-> EmptyMap, err |-> ""])
    /\ pc = (1 :> "idle")
    /\ cur = (1 :> NoCall)
    /\ prev = (1 :> NoCall)
    /\ edits = 0
    /\ logger = IdleLogger
    /\ help = IdleHelp

NextEnvName ==
    \/ \E l \in DOMAIN pc : LoadFresh(l)
    \/ \E l \in DOMAIN pc : LoadFind(l)
    \/ \E l \in DOMAIN pc : LoadPaths(l)
    \/ \E l \in DOMAIN pc : LoadStat(l)
    \/ \E l \in DOMAIN pc : LoadConfigType(l)
    \/ \E l \in DOMAIN pc : LoadHit(l)
    \/ \E l \in DOMAIN pc : LoadSetFile(l)
    \/ \E l \in DOMAIN pc : LoadFile(l)
    \/ \E l \in DOMAIN pc : LoadType(l)
    \/ \E l \in DOMAIN pc : LoadStore(l)
    \/ \E l \in DOMAIN pc : LoadBind(l)
    \/ \E l \in DOMAIN pc : LoadKeys(l)
    \/ \E l \in DOMAIN pc : LoadGet(l)

SpecEnvName == InitEnvName /\ [][NextEnvName]_vars

(***************************************************************************)
(* SpecTwo: two Loaders built in the same process, each from one of six    *)
(* option lists, three of which hand over the caller's viper instance;     *)
(* their constructions and their Load calls interleave access by access    *)
(* to the viper instances, and a race on one instance may stop the         *)
(* process.                                                                *)
(***************************************************************************)
TwoOptions ==
    { <<>>,
      << WithConfigName("app"), WithConfigPath(".") >>,
      << WithConfigName(""), WithEnvPrefix(<<>>) >>,
      << WithViper(ExtViper), WithConfigPath("./") >>,
      << WithViper(ExtViper), WithConfigPath("./"), WithConfigName("app") >>,
      << WithEnvPrefix(<<"x">>), WithViper(ExtViper), WithConfigType("") >> }

\* the files of the specification: ./config.yaml alone, so that a search for
\* the name app finds nothing, or ./config.yaml and ./app.yaml
TwoFiles ==
    { [EmptyFS EXCEPT ![<<"./", "config", "yaml">>] = FileA],
      [EmptyFS EXCEPT ![<<"./", "config", "yaml">>] = FileA, ![<<"./", "app", "yaml">>] = FileB] }

InitTwo ==
    /\ fs \in TwoFiles
    /\ env = EmptyMap
    /\ schema = TheSchema
    /\ vipers = (ExtViper :> viperNew)
    /\ loaders = <<>>
    /\ pc = [l \in {1, 2} |-> "idle"]
    /\ cur = [l \in {1, 2} |-> NoCall]
    /\ prev = [l \in {1, 2} |-> NoCall]
    /\ solo = [l \in {1, 2} |-> NoSolo]
    /\ edits = 0
    /\ logger = IdleLogger
    /\ help = IdleHelp

NextTwo ==
    \/ \E l \in DOMAIN pc, options \in TwoOptions : Build(l, options)
    \/ \E l \in DOMAIN pc : Option(l)
    \/ \E l \in DOMAIN pc, m \in DOMAIN pc : Fault(l, m)
    \/ \E l \in DOMAIN pc : cur[1].n + cur[2].n < MaxTwoCalls /\ LoadFresh(l)
    \/ \E l \in DOMAIN pc : LoadFind(l)
    \/ \E l \in DOMAIN pc : LoadPaths(l)
    \/ \E l \in DOMAIN pc : LoadStat(l)
    \/ \E l \in DOMAIN pc : LoadConfigType(l)
    \/ \E l \in DOMAIN pc : LoadHit(l)
    \/ \E l \in DOMAIN pc : LoadSetFile(l)
    \/ \E l \in DOMAIN pc : LoadFile(l)
    \/ \E l \in DOMAIN pc : LoadType(l)
    \/ \E l \in DOMAIN pc : LoadStore(l)
    \/ \E l \in DOMAIN pc : LoadBind(l)
    \/ \E l \in DOMAIN pc : LoadKeys(l)
    \/ \E l \in DOMAIN pc : LoadGet(l)

SpecTwo == InitTwo /\ [][NextTwo]_vars


(***************************************************************************)
(* The Logrus logger.  An extra argument is [kind, val]; an entry is what  *)
(* logrus hands to its formatter: level, message and the field map.        *)
(***************************************************************************)
strArg(x) == [kind |-> "string", val |-> x]
intArg(x) == [kind |-> "int", val |-> x]

\* the levels of logrus from least to most verbose
LogLevels == <<"panic", "fatal", "error", "warn", "info", "debug", "trace">>

\* logrus.Logger.IsLevelEnabled
IsLevelEnabled(loggerLevel, level) ==
    LET levelNum(name) == CHOOSE i \in 1..Len(LogLevels) : LogLevels[i] = name
    IN  levelNum(loggerLevel) >= levelNum(level)

\* mutant of fieldValue: the pair's second element is stored
fieldValueSecond(args, k) == args[k + 1]

\* what getFields stores under the key of the pair that starts at args[k]
fieldValue(args, k) == args[k]

\* fieldMap[key] = value
setField(fieldMap, key, value) ==
    [ x \in DOMAIN fieldMap \cup {key} |-> IF x = key THEN value ELSE fieldMap[x] ]

\* the loop of getFields from the pair that starts at args[k]; the type
\* assertion on a key that is no string panics
RECURSIVE fieldsFrom(_, _, _)
fieldsFrom(args, k, fieldMap) ==
    IF k >= Len(args) THEN [panic |-> FALSE, fields |-> fieldMap]
    ELSE IF args[k].kind # "string" THEN [panic |-> TRUE, fields |-> fieldMap]
    ELSE fieldsFrom(args, k + 2, setField(fieldMap, args[k].val, fieldValue(args, k)))

getFields(args) ==
    IF Len(args) > 1 /\ Len(args) % 2 = 0
    THEN fieldsFrom(args, 1, EmptyMap)
    ELSE [panic |-> FALSE, fields |-> EmptyMap]

\* logrus.ParseLevel(lvl): the name is read in lower case, "warning" is
\* another name of warn, any other name is an error
ParseLevel(lvl) ==
    CASE ToLower(lvl) = <<"p", "a", "n", "i", "c">> -> [err |-> FALSE, level |-> "panic"]
      [] ToLower(lvl) = <<"f", "a", "t", "a", "l">> -> [err |-> FALSE, level |-> "fatal"]
      [] ToLower(lvl) = <<"e", "r", "r", "o", "r">> -> [err |-> FALSE, level |-> "error"]
      [] ToLower(lvl) \in {<<"w", "a", "r", "n">>, <<"w", "a", "r", "n", "i", "n", "g">>} ->
             [err |-> FALSE, level |-> "warn"]
      [] ToLower(lvl) = <<"i", "n", "f", "o">> -> [err |-> FALSE, level |-> "info"]
      [] ToLower(lvl) = <<"d", "e", "b", "u", "g">> -> [err |-> FALSE, level |-> "debug"]
      [] ToLower(lvl) = <<"t", "r", "a", "c", "e">> -> [err |-> FALSE, level |-> "trace"]
      [] OTHER -> [err |-> TRUE, level |-> "panic"]

\* the option LogrusWithLevel(level) returns
LogrusWithLevel(level) == [op |-> "LogrusWithLevel", level |-> level]

\* the loop of NewLogrus, lines 78-80; the option (lines 52-56) panics on a
\* name ParseLevel rejects, and the panic leaves the loop
RECURSIVE applyLogOptions(_, _)
applyLogOptions(lg, opts) ==
    IF opts = <<>> THEN lg
    ELSE IF ParseLevel(Head(opts).level).err
    THEN [lg EXCEPT !.alive = FALSE,
                    !.call = [method |-> "NewLogrus", args |-> <<>>, outcome |-> "panic"]]
    ELSE applyLogOptions([lg EXCEPT !.level = ParseLevel(Head(opts).level).level], Tail(opts))

NoLogCall == [method |-> "", args |-> <<>>, outcome |-> "none"]

\* NewLogrus(opts...): level info, then the options in order; when an option
\* panics no logger is returned (alive is FALSE from the start)
NewLogrus(opts) ==
    applyLogOptions([level |-> "info", alive |-> TRUE, n |-> 0, entries |-> <<>>,
                     call |-> NoLogCall], opts)

\* l.log.WithFields(f).Log(level, msg); Fatal ends the process afterwards
logWith(lg, level, msg, args, f) ==
    IF f.panic
    THEN [lg EXCEPT !.n = @ + 1,
                    !.call = [method |-> level, args |-> args, outcome |-> "panic"]]
    ELSE [lg EXCEPT !.n = @ + 1,
                    !.alive = (level # "fatal"),
                    !.entries = IF IsLevelEnabled(lg.level, level)
                                THEN Append(@, [level |-> level, msg |-> msg, fields |-> f.fields])
                                ELSE @,
                    !.call = [method |-> level, args |-> args,
                              outcome |-> IF IsLevelEnabled(lg.level, level)
                                          THEN "emitted" ELSE "filtered"]]

ArgValues == { strArg("day"), strArg("month"), intArg("11") }

ArgLists == UNION { [1..n -> ArgValues] : n \in 0..MaxArgs }

LogOptions ==
    { <<>>,
      << LogrusWithLevel(<<"d", "e", "b", "u", "g">>) >>,
      << LogrusWithLevel(<<"E", "R", "R", "O", "R">>) >>,
      << LogrusWithLevel(<<"W", "a", "r", "n", "i", "n", "g">>) >>,
      << LogrusWithLevel(<<"b", "o", "g", "u", "s">>) >>,
      << LogrusWithLevel(<<>>) >> }

logCall(level, msg, args) ==
    /\ logger.alive
    /\ logger.n < MaxLogs
    /\ logger' = logWith(logger, level, msg, args, getFields(args))
    /\ UNCHANGED <<fs, env, schema, vipers, loaders, pc, cur, prev, solo, edits, help>>

Info(msg, args)  == logCall("info", msg, args)
Debug(msg, args) == logCall("debug", msg, args)
Warn(msg, args)  == logCall("warn", msg, args)
Error(msg, args) == logCall("error", msg, args)
Fatal(msg, args) == logCall("fatal", msg, args)

(***************************************************************************)
(* SpecLog: one logger built with a choice of level name, two of which     *)
(* make NewLogrus panic, called through its level methods with every list  *)
(* of up to MaxArgs extra arguments.                                       *)
(***************************************************************************)
InitLog ==
    /\ fs = EmptyFS
    /\ env = EmptyMap
    /\ schema = TheSchema
    /\ vipers = (ExtViper :> viperNew)
    /\ loaders = <<>>
    /\ pc = <<>>
    /\ cur = <<>>
    /\ prev = <<>>
    /\ solo = <<>>
    /\ edits = 0
    /\ logger \in { NewLogrus(opts) : opts \in LogOptions }
    /\ help = IdleHelp

NextLog ==
    \/ \E args \in ArgLists : Info("hello", args)
    \/ \E args \in ArgLists : Debug("hello", args)
    \/ \E args \in ArgLists : Warn("hello", args)
    \/ \E args \in ArgLists : Error("hello", args)
    \/ \E args \in ArgLists : Fatal("hello", args)

SpecLog == InitLog /\ [][NextLog]_vars

(***************************************************************************)
(* The help renderer.  A text is a sequence of pieces; a string is the     *)
(* sequence of its lines, each [ind |-> leading spaces, text |-> the rest];*)
(* a stream is the sequence of the writes made to it.                      *)
(***************************************************************************)
Line(ind, text) == [ind |-> ind, text |-> text]

EmptyString == << Line(0, <<>>) >>

OneLine(text) == << Line(0, text) >>

isEmptyLine(l) == l.ind = 0 /\ l.text = <<>>

\* strings.Trim(s, "\r\n")
RECURSIVE trimLeft(_)
trimLeft(str) ==
    IF Len(str) > 1 /\ isEmptyLine(str[1]) THEN trimLeft(Tail(str)) ELSE str

RECURSIVE trimRight(_)
trimRight(str) ==
    IF Len(str) > 1 /\ isEmptyLine(str[Len(str)])
    THEN trimRight(SubSeq(str, 1, Len(str) - 1)) ELSE str

Trim(str) == trimRight(trimLeft(str))

\* indent(s, "  "): every line gets the indent unless the string is blank
indent(str, n) ==
    IF \A i \in 1..Len(str) : str[i].text = <<>> THEN str
    ELSE [ i \in 1..Len(str) |-> Line(str[i].ind + n, str[i].text) ]

\* the smallest indentation of the lines of positive length, -1 without one
minIndent(str) ==
    IF \A i \in 1..Len(str) : isEmptyLine(str[i]) THEN -1
    ELSE CHOOSE m \in { str[i].ind : i \in { j \in 1..Len(str) : ~isEmptyLine(str[j]) } } :
             \A i \in 1..Len(str) : ~isEmptyLine(str[i]) => m <= str[i].ind

dedentBy(str, m) ==
    IF m <= 0 THEN str
    ELSE [ i \in 1..Len(str) |->
             IF str[i].ind >= m THEN Line(str[i].ind - m, str[i].text) ELSE str[i] ]

dedent(str) == dedentBy(str, minIndent(str))

\* rpad(s, padding): s left-justified in `padding` columns, then a space
rpad(text, padding) ==
    text \o [ i \in 1..(IF padding > Len(text) THEN padding - Len(text) ELSE 0) |-> " " ]
         \o <<" ">>

\* strings.Join(lines, "\n") of one-line texts
Join(texts) == [ i \in 1..Len(texts) |-> Line(0, texts[i]) ]

\* the Use of the root and of the command between the root and a command two
\* levels down
RootUse == <<"r", "o", "o", "t">>
MidUse  == <<"m", "i", "d">>

\* command.Commands(): the subcommands, which the call first sorts by name in
\* the command itself; cobra.EnableCommandSorting, which switches the sorting
\* off, is left at its default by the package
Commands(c) == sortByName(c.subs)

\* a bool flag without shorthand whose default is false
Flag(name, usage) == [name |-> name, usage |-> usage]

\* command.LocalFlags(): the flags and the persistent flags declared on the
\* command itself; command.InheritedFlags(): the persistent flags of its
\* ancestors that the command does not declare again
LocalFlags(c) == sortByName(c.flags \o c.pflags)

\* cobra's mergePersistentFlags, which LocalFlags() and InheritedFlags() call
\* first: the persistent flags of the command and of its ancestors are added
\* to c.Flags(), and stay there
mergePersistentFlags(c) == [c EXCEPT !.merged = TRUE]
InheritedFlags(c) ==
    sortByName(SelectSeq(c.parentsPflags,
                         LAMBDA f : \A i \in 1..Len(c.flags \o c.pflags) :
                                        (c.flags \o c.pflags)[i].name # f.name))

\* pflag's FlagUsages(): one line per flag in name order, "      --name",
\* the usages aligned three columns after the longest name; "" without flags
FlagUsages(flags) ==
    IF flags = <<>> THEN EmptyString
    ELSE LET n == CHOOSE m \in { Len(flags[i].name) : i \in 1..Len(flags) } :
                      \A i \in 1..Len(flags) : Len(flags[i].name) <= m
         IN  [ i \in 1..Len(flags) |->
                 Line(6, <<"--">> \o flags[i].name
                         \o [ k \in 1..(n - Len(flags[i].name) + 3) |-> " " ]
                         \o <<flags[i].usage>>) ]
             \o << Line(0, <<>>) >>

\* command.Name(): the Use up to its first space
Name(use) ==
    IF \E i \in 1..Len(use) : use[i] = " "
    THEN SubSeq(use, 1, (CHOOSE i \in 1..Len(use) :
                            use[i] = " " /\ \A j \in 1..(i - 1) : use[j] # " ") - 1)
    ELSE use

\* command.Parent().CommandPath(): the names from the root down to the parent
parentCommandPath(parent) ==
    IF parent = "root" THEN Name(RootUse) ELSE Name(RootUse) \o <<" ">> \o Name(MidUse)

\* command.CommandPath()
CommandPath(c) ==
    IF c.parent = "nil" THEN Name(c.use)
    ELSE parentCommandPath(c.parent) \o <<" ">> \o Name(c.use)

\* command.HasAvailableFlags(): c.Flags() holds a flag that is not hidden;
\* c.Flags() holds the flags declared on the command and, once cobra merged
\* them in (it does when it parses the command line and in LocalFlags() and
\* InheritedFlags()), the persistent ones
HasAvailableFlags(c) ==
    c.flags # <<>> \/ (c.merged /\ c.pflags \o c.parentsPflags # <<>>)

\* command.UseLine()
UseLine(c) ==
    LET useline == IF c.parent = "nil" THEN c.use
                   ELSE parentCommandPath(c.parent) \o <<" ">> \o c.use
    IN  IF ~c.disableFlagsInUseLine /\ HasAvailableFlags(c)
           /\ \A i \in 0..(Len(useline) - 7) :
                  SubSeq(useline, i + 1, i + 7) # <<"[", "f", "l", "a", "g", "s", "]">>
        THEN useline \o <<" ", "[", "f", "l", "a", "g", "s", "]">>
        ELSE useline

\* cobra: the padding of the names of the subcommands of one parent
NamePadding(c) == 11

\* cobra: the writer set with SetOut on the command or an ancestor, else the
\* default (c.out is "nil" when none is set)
OutOrStdout(c) == IF c.out # "nil" THEN c.out ELSE "stdout"
OutOrStderr(c) == IF c.out # "nil" THEN c.out ELSE "stderr"

\* command.Parent() is "nil" for the root, "root" for its children and
\* "child" below them
isRootCmd(parent) == parent # "nil" /\ parent # "child"

\* a write of a string, with the newline Println adds or without
Write(str, nl) == [s |-> str, nl |-> nl]

\* fmt.Fprint(stream, ...)
emit(h, stream, w) == [h EXCEPT !.streams[stream] = Append(@, w)]

\* command.Print and command.Printf write to OutOrStderr
cmdPrint(h, str) == emit(h, OutOrStderr(h.cmd), Write(str, FALSE))

\* lines 64-80: one subcommand put into its group
addCommand(acc, c, line) ==
    IF c.short = <<>> \/ c.hidden THEN acc
    ELSE IF "group:core" \in DOMAIN c.ann
    THEN [acc EXCEPT !.core = Append(@, line)]
    ELSE IF "group:other" \in DOMAIN c.ann
    THEN [acc EXCEPT !.other =
              [ g \in DOMAIN acc.other \cup {c.ann["group:other"]} |->
                  IF g = c.ann["group:other"]
                  THEN (IF g \in DOMAIN acc.other THEN Append(acc.other[g], line) ELSE <<line>>)
                  ELSE acc.other[g] ]]
    ELSE [acc EXCEPT !.additional = Append(@, line)]

RECURSIVE groupFrom(_, _, _)
groupFrom(subs, i, acc) ==
    IF i > Len(subs) THEN acc
    ELSE groupFrom(subs, i + 1,
                   addCommand(acc, subs[i],
                              rpad(subs[i].name, NamePadding(subs[i])) \o subs[i].short))

\* mutant of assumeCore: the additional commands are not cleared
assumeCoreKeepAdditional(acc) ==
    IF Len(acc.core) = 0 /\ DOMAIN acc.other = {}
    THEN [acc EXCEPT !.core = acc.additional]
    ELSE acc

\* lines 82-86: without core and other commands everything is a core command
assumeCore(acc) ==
    IF Len(acc.core) = 0 /\ DOMAIN acc.other = {}
    THEN [acc EXCEPT !.core = acc.additional, !.additional = <<>>]
    ELSE acc

\* lines 60-86, over command.Commands()
groupCommands(subs) ==
    assumeCore(groupFrom(subs, 1, [core |-> <<>>, other |-> EmptyMap, additional |-> <<>>]))

helpEntry(title, body) == [Title |-> title, Body |-> body]

entryIf(cond, title, body) == IF cond THEN << helpEntry(title, body) >> ELSE <<>>

\* lines 110-114 in the order the map iteration takes
RECURSIVE otherEntries(_, _, _)
otherEntries(other, order, i) ==
    IF i > Len(order) THEN <<>>
    ELSE entryIf(Len(other[order[i]]) > 0,
                 ToUpper(order[i]) \o <<" COMMANDS">>, Join(other[order[i]]))
         \o otherEntries(other, order, i + 1)

annotation(c, key) == IF key \in DOMAIN c.ann THEN c.ann[key] ELSE EmptyString

\* lines 93-148; `environment` tells whether the function has the entry of
\* the annotation help:environment (lines 138-140), which rootHelpFunc of
\* package cmdx has and RootHelpFunc of package help has not
helpEntriesOf(c, g, order, environment) ==
    entryIf(c.long # EmptyString, <<>>, c.long)
    \o entryIf(c.long = EmptyString /\ c.short # <<>>, <<>>, OneLine(c.short))
    \o << helpEntry(<<"USAGE">>, OneLine(UseLine(c))) >>
    \o entryIf(Len(g.core) > 0, <<"CORE COMMANDS">>, Join(g.core))
    \o otherEntries(g.other, order, 1)
    \o entryIf(Len(g.additional) > 0, <<"ADDITIONAL COMMANDS">>, Join(g.additional))
    \o entryIf(FlagUsages(LocalFlags(c)) # EmptyString, <<"FLAGS">>,
               dedent(FlagUsages(LocalFlags(c))))
    \o entryIf(FlagUsages(InheritedFlags(c)) # EmptyString, <<"INHERITED FLAGS">>,
               dedent(FlagUsages(InheritedFlags(c))))
    \o entryIf("help:arguments" \in DOMAIN c.ann, <<"ARGUMENTS">>, annotation(c, "help:arguments"))
    \o entryIf(c.example # EmptyString, <<"EXAMPLES">>, c.example)
    \o entryIf(environment /\ "help:environment" \in DOMAIN c.ann, <<"ENVIRONMENT VARIABLES">>,
               annotation(c, "help:environment"))
    \o entryIf("help:learn" \in DOMAIN c.ann, <<"LEARN MORE">>, annotation(c, "help:learn"))
    \o entryIf("help:feedback" \in DOMAIN c.ann, <<"FEEDBACK">>, annotation(c, "help:feedback"))

\* lines 152-160: one entry written
writeEntry(h, out, e) ==
    IF e.Title # <<>>
    THEN emit(emit(emit(h, out, Write(OneLine(e.Title), TRUE)),
                   out, Write(indent(Trim(e.Body), 2), TRUE)),
              out, Write(EmptyString, TRUE))
    ELSE emit(emit(h, "stdout", Write(e.Body, TRUE)), out, Write(EmptyString, TRUE))

\* lines 150-161
RECURSIVE writeEntries(_, _, _, _)
writeEntries(h, out, entries, i) ==
    IF i > Len(entries) THEN h
    ELSE writeEntries(writeEntry(h, out, entries[i]), out, entries, i + 1)

\* rootUsageFunc, lines 24-45
RECURSIVE printNames(_, _, _)
printNames(h, subs, i) ==
    IF i > Len(subs) THEN h
    ELSE IF subs[i].hidden THEN printNames(h, subs, i + 1)
    ELSE printNames(cmdPrint(h, << Line(2, subs[i].name), Line(0, <<>>) >>), subs, i + 1)

\* lines 27-44; a command without subcommands gets to LocalFlags() (line
\* 39), which merges the persistent flags into its flags
usageTail(h) ==
    IF Len(h.cmd.subs) > 0
    THEN printNames(cmdPrint(h, << Line(0, <<>>), Line(0, <<>>),
                                   Line(0, <<"Available commands:">>), Line(0, <<>>) >>),
                    Commands(h.cmd), 1)
    ELSE IF FlagUsages(LocalFlags(h.cmd)) # EmptyString
    THEN cmdPrint(emit([h EXCEPT !.cmd = mergePersistentFlags(@)], OutOrStderr(h.cmd),
                       Write(<< Line(0, <<>>), Line(0, <<>>), Line(0, <<"Flags:">>) >>,
                             TRUE)),
                  indent(dedent(FlagUsages(LocalFlags(h.cmd))), 2))
    ELSE [h EXCEPT !.cmd = mergePersistentFlags(@)]

rootUsageFunc(h) ==
    usageTail([cmdPrint(h, OneLine(<<"Usage:  ">> \o UseLine(h.cmd)))
                 EXCEPT !.cmd.subs = Commands(h.cmd)])

ld3(x, y, z) == IF x <= y /\ x <= z THEN x ELSE IF y <= z THEN y ELSE z

\* cobra's ld(s, t, ignoreCase): the edit distance of two names
RECURSIVE ld(_, _)
ld(a, b) ==
    IF a = <<>> THEN Len(b)
    ELSE IF b = <<>> THEN Len(a)
    ELSE IF Head(a) = Head(b) THEN ld(Tail(a), Tail(b))
    ELSE 1 + ld3(ld(Tail(a), b), ld(a, Tail(b)), ld(Tail(a), Tail(b)))

HasPrefix(text, prefix) ==
    Len(prefix) <= Len(text) /\ SubSeq(text, 1, Len(prefix)) = prefix

\* cmd.IsAvailableCommand(): not deprecated, not hidden, not the help command
\* of its parent, and runnable or with an available command below it
IsAvailableCommand(cmd) ==
    /\ ~cmd.deprecated /\ ~cmd.hidden
    /\ ~cmd.helpCommand
    /\ cmd.runnable \/ cmd.availableSubs

\* cobra's SuggestionsFor: of each available subcommand, in the order they
\* were added, the name when it is within the minimum distance of the typed
\* name or starts with it, and the name once more for each entry of its
\* SuggestFor that equals the typed name but for case
RECURSIVE SuggestionsFor(_, _, _)
SuggestionsFor(c, typedName, i) ==
    IF i > Len(c.subs) THEN <<>>
    ELSE (IF IsAvailableCommand(c.subs[i])
          THEN (IF \/ ld(ToLower(typedName), ToLower(c.subs[i].name)) <= c.sugMin
                   \/ HasPrefix(ToLower(c.subs[i].name), ToLower(typedName))
                THEN << c.subs[i].name >> ELSE <<>>)
               \o [ k \in 1..Len(SelectSeq(c.subs[i].suggestFor,
                                           LAMBDA x : ToLower(x) = ToLower(typedName)))
                     |-> c.subs[i].name ]
          ELSE <<>>)
         \o SuggestionsFor(c, typedName, i + 1)

HelpWord == <<"h", "e", "l", "p">>
HelpFlag == <<"-", "-", "h", "e", "l", "p">>
ShortHelpFlag == <<"-", "h">>

\* lines 174-176
minimumDistance(h, arg) ==
    IF arg # HelpWord /\ h.cmd.sugMin <= 0 THEN [h EXCEPT !.cmd.sugMin = 2] ELSE h

RECURSIVE printCandidates(_, _, _)
printCandidates(h, candidates, i) ==
    IF i > Len(candidates) THEN h
    ELSE printCandidates(cmdPrint(h, << Line(0, <<"\t">> \o candidates[i]), Line(0, <<>>) >>),
                         candidates, i + 1)

\* lines 180-188
suggestTail(h, candidates) ==
    rootUsageFunc(
        cmdPrint(IF Len(candidates) > 0
                 THEN printCandidates(
                          cmdPrint(h, << Line(0, <<>>), Line(0, <<"Did you mean this?">>),
                                         Line(0, <<>>) >>),
                          candidates, 1)
                 ELSE h,
                 << Line(0, <<>>), Line(0, <<>>) >>))

\* fmt's %q: the string in double quotes, its backslashes and double quotes
\* escaped; the strings of the model hold no other byte that is escaped
Quote(text) ==
    <<"\"">> \o Replace(<<"\"">>, <<"\\", "\"">>, Replace(<<"\\">>, <<"\\", "\\">>, text))
    \o <<"\"">>

\* nestedSuggestFunc, lines 167-189
nestedSuggestFunc(h, arg) ==
    suggestTail(
        minimumDistance(
            cmdPrint(h, << Line(0, <<"unknown command ">> \o Quote(arg) \o <<" for ">>
                                   \o Quote(CommandPath(h.cmd))),
                           Line(0, <<>>) >>),
            arg),
        IF arg = HelpWord THEN << HelpFlag >>
        ELSE SuggestionsFor(minimumDistance(h, arg).cmd, arg, 1))

\* rootHelpFunc, lines 54-162; `order` is the order the iteration over the
\* map of other groups takes.  The help entries are made from the command as
\* it is on entry up to UseLine() (line 104); LocalFlags() (line 120) then
\* merges the persistent flags into its flags, which the command keeps.
rootHelpFunc(h, args, order) ==
    IF isRootCmd(h.cmd.parent) /\ Len(args) >= 2 /\ args[2] # HelpFlag /\ args[2] # ShortHelpFlag
    THEN [nestedSuggestFunc(h, args[2]) EXCEPT !.last = "suggest", !.phase = "done"]
    ELSE [writeEntries([h EXCEPT !.cmd = mergePersistentFlags(
                                              [h.cmd EXCEPT !.subs = Commands(h.cmd)])],
                       OutOrStdout(h.cmd),
                       helpEntriesOf(h.cmd, groupCommands(Commands(h.cmd)), order, TRUE), 1)
            EXCEPT !.last = "help", !.phase = "done"]

\* RootHelpFunc of package help: the same function, exported, without the
\* entry ENVIRONMENT VARIABLES; its nestedSuggestFunc and RootUsageFunc are
\* those of package cmdx line by line
RootHelpFunc(h, args, order) ==
    IF isRootCmd(h.cmd.parent) /\ Len(args) >= 2 /\ args[2] # HelpFlag /\ args[2] # ShortHelpFlag
    THEN [nestedSuggestFunc(h, args[2]) EXCEPT !.last = "suggest", !.phase = "done"]
    ELSE [writeEntries([h EXCEPT !.cmd = mergePersistentFlags(
                                              [h.cmd EXCEPT !.subs = Commands(h.cmd)])],
                       OutOrStdout(h.cmd),
                       helpEntriesOf(h.cmd, groupCommands(Commands(h.cmd)), order, FALSE), 1)
            EXCEPT !.last = "help", !.phase = "done"]

\* the orders a map iteration can take over a set of keys
Orders(keys) ==
    { o \in [1..Cardinality(keys) -> keys] :
        \A i \in 1..Cardinality(keys), j \in 1..Cardinality(keys) : o[i] = o[j] => i = j }

(***************************************************************************)
(* The commands the help is rendered for.                                  *)
(***************************************************************************)
SubCommand(name, short, hidden, ann, more) ==
    [ name |-> name, short |-> short, hidden |-> hidden, ann |-> ann,
      deprecated |-> more.deprecated, helpCommand |-> more.helpCommand,
      runnable |-> more.runnable, availableSubs |-> more.availableSubs,
      suggestFor |-> more.suggestFor ]

\* a subcommand with a Run function and nothing else set
Runnable ==
    [ deprecated |-> FALSE, helpCommand |-> FALSE, runnable |-> TRUE,
      availableSubs |-> FALSE, suggestFor |-> <<>> ]

Core == ("group:core" :> <<"t", "r", "u", "e">>)
Other(g) == ("group:other" :> g)

SubChoices ==
    { SubCommand(<<"a">>, <<"Sa">>, FALSE, EmptyMap, Runnable),
      SubCommand(<<"b">>, <<"Sb">>, FALSE, Core,
                 [Runnable EXCEPT !.suggestFor = << <<"w", "X", "y", "z">> >>]),
      SubCommand(<<"c">>, <<"Sc">>, FALSE, Other(<<"x">>),
                 [Runnable EXCEPT !.runnable = FALSE]),
      SubCommand(<<"d">>, <<"Sd">>, TRUE, Core, Runnable),
      SubCommand(<<"e">>, <<>>, FALSE, Core, [Runnable EXCEPT !.deprecated = TRUE]),
      SubCommand(<<"f">>, <<"Sf">>, FALSE, Core @@ Other(<<"x">>),
                 [Runnable EXCEPT !.runnable = FALSE, !.availableSubs = TRUE]),
      SubCommand(<<"g">>, <<"Sg">>, FALSE, Other(<<"a", "b">>),
                 [Runnable EXCEPT !.suggestFor = << <<"A", "b">>, <<"a", "b">> >>]),
      SubCommand(HelpWord, <<"Help about any command">>, FALSE, EmptyMap,
                 [Runnable EXCEPT !.helpCommand = TRUE]) }

SubLists ==
    { subs \in UNION { [1..n -> SubChoices] : n \in 0..MaxCmds } :
        \A i \in 1..Len(subs), j \in 1..Len(subs) : subs[i].name = subs[j].name => i = j }

Descriptions ==
    { [long |-> << Line(0, <<"Long">>), Line(2, <<"more">>) >>, short |-> <<"Short">>],
      [long |-> EmptyString, short |-> <<"Short">>],
      [long |-> EmptyString, short |-> <<>>] }

\* the flags a command declares itself
OwnFlags == { <<>>, << Flag(<<"a", "l", "l">>, "Show all") >> }

AllAnnotations ==
    "help:arguments" :> OneLine(<<"Args">>) @@ "help:environment" :> OneLine(<<"Env">>)
    @@ "help:learn" :> OneLine(<<"Learn">>) @@ "help:feedback" :> OneLine(<<"Feedback">>)

\* the Example and the annotations of the command, its Use, whether cobra has
\* merged the persistent flags into c.Flags() when the help is rendered, and
\* DisableFlagsInUseLine
Decorations ==
    { [example |-> EmptyString, ann |-> EmptyMap,
       use |-> <<"a", "p", "p", " ", "[", "f", "l", "a", "g", "s", "]">>,
       merged |-> TRUE, disableFlagsInUseLine |-> FALSE],
      [example |-> OneLine(<<"$ app run">>), ann |-> AllAnnotations,
       use |-> <<"a", "p", "p">>, merged |-> TRUE, disableFlagsInUseLine |-> FALSE],
      [example |-> EmptyString, ann |-> EmptyMap,
       use |-> <<"a", "p", "p">>, merged |-> FALSE, disableFlagsInUseLine |-> FALSE],
      [example |-> OneLine(<<"$ app run">>), ann |-> AllAnnotations,
       use |-> <<"a", "p", "p", " ", "N">>, merged |-> TRUE,
       disableFlagsInUseLine |-> TRUE] }

\* a cobra.Command as the program builds it, before SetHelp
Command(d, x, parent, out, subs, own) ==
    [ long |-> d.long, short |-> d.short, use |-> x.use, merged |-> x.merged,
      disableFlagsInUseLine |-> x.disableFlagsInUseLine,
      parent |-> parent, out |-> out, subs |-> subs, flags |-> own, pflags |-> <<>>,
      parentsPflags |-> <<>>, example |-> x.example, ann |-> x.ann, sugMin |-> 0 ]

\* SetHelp(cmd), line 15: the persistent flag --help is declared on cmd;
\* lines 17-21 make rootHelpFunc and rootUsageFunc the functions of cmd and
\* of the commands below it
SetHelp(cmd) ==
    [cmd EXCEPT !.pflags = Append(@, Flag(<<"h", "e", "l", "p">>, "Show help for command"))]

\* the command cobra renders after SetHelp(root): the root itself, or a
\* command below it, which has the persistent flags of the root above it
setUp(cmd) ==
    IF cmd.parent = "nil" THEN SetHelp(cmd)
    ELSE [cmd EXCEPT !.parentsPflags = SetHelp(cmd).pflags]

HelpCommands ==
    { setUp(Command(d, x, parent, out, subs, own)) :
        d \in Descriptions, x \in Decorations, parent \in {"nil", "root", "child"},
        out \in {"nil", "buf"}, subs \in SubLists, own \in OwnFlags }

HelpArgs ==
    { <<>>, << <<"x">>, HelpFlag >>, << <<"x">>, <<"a", "b">> >>, << <<"x">>, HelpWord >>,
      << <<"x">>, <<"w", "x", "y", "z">> >>, << <<"x">>, <<"h", "e">> >> }

NoStreams == [stdout |-> <<>>, stderr |-> <<>>, buf |-> <<>>]

\* the help function of the command runs: cobra calls it once per process.
\* The command is left with its subcommands sorted and, past line 120, with
\* the persistent flags merged into its flags.
Help(args, order) ==
    /\ help.phase = "ready"
    /\ help' = rootHelpFunc(help, args, order)
    /\ UNCHANGED <<fs, env, schema, vipers, loaders, pc, cur, prev, solo, edits, logger>>

\* help.RootHelpFunc runs as the help function of the command, set with
\* command.SetHelpFunc by a program that uses package help
RootHelp(args, order) ==
    /\ help.phase = "ready"
    /\ help' = RootHelpFunc(help, args, order)
    /\ UNCHANGED <<fs, env, schema, vipers, loaders, pc, cur, prev, solo, edits, logger>>

\* the usage function of the command runs (rootUsageFunc of package cmdx,
\* RootUsageFunc of package help: the same lines); the command is left with its
\* subcommands sorted and, past line 39, with the persistent flags merged
\* into its flags
Usage ==
    /\ help.phase = "ready"
    /\ help' = [rootUsageFunc(help) EXCEPT !.last = "usage", !.phase = "done"]
    /\ UNCHANGED <<fs, env, schema, vipers, loaders, pc, cur, prev, solo, edits, logger>>

(***************************************************************************)
(* SpecHelp: SetHelp on one command of a tree, then its help, by the       *)
(* function of package cmdx or by that of package help, or its usage.      *)
(***************************************************************************)
InitHelp ==
    /\ fs = EmptyFS
    /\ env = EmptyMap
    /\ schema = TheSchema
    /\ vipers = (ExtViper :> viperNew)
    /\ loaders = <<>>
    /\ pc = <<>>
    /\ cur = <<>>
    /\ prev = <<>>
    /\ solo = <<>>
    /\ edits = 0
    /\ logger = IdleLogger
    /\ help \in { [phase |-> "ready", cmd |-> c, streams |-> NoStreams, last |-> ""] :
                  c \in HelpCommands }

NextHelp ==
    \/ \E args \in HelpArgs :
         \E order \in Orders(DOMAIN groupCommands(Commands(help.cmd)).other) :
             Help(args, order)
    \/ \E args \in HelpArgs :
         \E order \in Orders(DOMAIN groupCommands(Commands(help.cmd)).other) :
             RootHelp(args, order)
    \/ Usage

SpecHelp == InitHelp /\ [][NextHelp]_vars

(***************************************************************************)
(* Vocabulary of the properties.                                           *)
(***************************************************************************)
\* Loader l has returned from a Load on a pointer to a struct
Valid(l) == Done(l) /\ cur[l].kind = "ptr-struct"

Succeeded(l) == Valid(l) /\ cur[l].err = ""

\* the File source of call c: the content of the file the call read, empty
\* when it read none
FileSource(c) ==
    IF c.io.read = {} THEN EmptyMap ELSE c.fs[CHOOSE slot \in c.io.read : TRUE].data

\* the environment variable derived for a key path by Loader l
EnvName(l, path) == envLookupName(viperOf(l), mergeWithEnvPrefix(viperOf(l), ToLower(path)))

\* the variable is set / is set to a non-empty value in the environment of call c
EnvSet(c, name)      == name \in DOMAIN c.env
EnvSupplies(c, name) == name \in DOMAIN c.env /\ c.env[name] # <<>>

\* some parent path of the key has its derived variable set to a non-empty value
ParentSupplied(l, c, path) ==
    \E q \in ParentKeys(ToLower(path)) : EnvSupplies(c, EnvName(l, q))

\* the declared default of a field, the zero value when it declares none
DefaultOrZero(path) ==
    IF defaultTag(schema, path) # <<>> THEN ParseInt(defaultTag(schema, path), 10).n ELSE 0

\* the Loader's configuration alone: its viper instance as construction left it
Configuration(l) ==
    [ viperOf(l) EXCEPT !.automaticEnvApplied = FALSE, !.configFile = NoFile,
                        !.config = EmptyMap, !.env = {} ]

(***************************************************************************)
(* C1.  Precedence Environment > File > Default > zero.                    *)
(***************************************************************************)
\* the value the claim as written names for a field
C1_ClaimedValue(l, path) ==
    IF EnvSet(cur[l], EnvName(l, path))
    THEN decodeInt(StrV(cur[l].env[EnvName(l, path)])).n
    ELSE IF ToLower(path) \in DOMAIN FileSource(cur[l])
    THEN FileSource(cur[l])[ToLower(path)]
    ELSE DefaultOrZero(path)

\* C1 as written: after a successful Load on a zero-valued target every leaf
\* holds the environment value when the derived variable is set, otherwise
\* the file value when the file has the key, otherwise the default,
\* otherwise zero.
C1_AsWritten ==
    \A l \in DOMAIN loaders :
        (Succeeded(l) /\ cur[l].tin = ZeroTarget(schema))
        => \A path \in DOMAIN cur[l].t : cur[l].t[path] = C1_ClaimedValue(l, path)

C1_AmendedValue(l, path) ==
    IF EnvSupplies(cur[l], EnvName(l, path))
    THEN decodeInt(StrV(cur[l].env[EnvName(l, path)])).n
    ELSE IF ToLower(path) \in DOMAIN FileSource(cur[l]) /\ ~ParentSupplied(l, cur[l], path)
    THEN FileSource(cur[l])[ToLower(path)]
    ELSE DefaultOrZero(path)

\* C1 amended: after a successful Load on a zero-valued target every leaf
\* holds the environment value when the derived variable is set to a
\* non-empty value; otherwise the file value when the file has the key and
\* no variable derived from a parent path of the key is set to a non-empty
\* value; otherwise the declared default; otherwise zero.
C1_Precedence ==
    \A l \in DOMAIN loaders :
        (Succeeded(l) /\ cur[l].tin = ZeroTarget(schema))
        => \A path \in DOMAIN cur[l].t : cur[l].t[path] = C1_AmendedValue(l, path)

\* a successful Load on a zero-valued target with the variable of S.P set,
\* the file holding s.p too, and the environment's value decoded
C1_Witness ==
    \E l \in DOMAIN loaders :
        /\ Succeeded(l) /\ cur[l].tin = ZeroTarget(schema)
        /\ EnvSupplies(cur[l], EnvName(l, <<"S", ".", "P">>))
        /\ <<"s", ".", "p">> \in DOMAIN FileSource(cur[l])
        /\ cur[l].t[<<"S", ".", "P">>] = 7
        /\ FileSource(cur[l])[<<"s", ".", "p">>] # 7

(***************************************************************************)
(* C2.  Invalid targets fail first.                                        *)
(***************************************************************************)
\* C2: a Load whose argument is not a non-nil pointer to a struct returns
\* the invalid-target error having touched no file and no environment
\* variable, with the target and the Loader's viper state as they were.
C2_InvalidTargetFailsFast ==
    \A l \in DOMAIN loaders :
        (cur[l].n > 0 /\ cur[l].kind # "ptr-struct")
        => /\ pc[l] = "idle"
           /\ cur[l].err = "InvalidTarget"
           /\ cur[l].io = NoIO
           /\ cur[l].t = cur[l].tin
           /\ viperOf(l) = cur[l].vpre

\* a nil pointer passed to a Loader that had already loaded a file once
C2_Witness ==
    \E l \in DOMAIN loaders :
        /\ Done(l) /\ cur[l].kind = "nil-ptr" /\ cur[l].err = "InvalidTarget"
        /\ prev[l].n > 0 /\ prev[l].err = "" /\ prev[l].io.read # {}
        /\ viperOf(l).configFile # NoFile

(***************************************************************************)
(* C3.  File not found is no error, a malformed file is.                   *)
(***************************************************************************)
\* the file a search of the configured paths matches in the file system of
\* call c (NoFile when none matches)
Matching(l, c) == findConfigFile(Configuration(l), c.fs, 1).found

\* C3: when no matching file exists the read step causes no error and the
\* File source is empty; when the matching file cannot be parsed Load
\* returns an error.
C3_NotFoundVersusMalformed ==
    \A l \in DOMAIN loaders :
        Valid(l) =>
            /\ Matching(l, cur[l]) = NoFile
               => /\ cur[l].cause \in {"", "ConfigFileNotFoundError"}
                  /\ cur[l].err # "ReadConfig"
                  /\ FileSource(cur[l]) = EmptyMap
            /\ (Matching(l, cur[l]) # NoFile /\ cur[l].fs[Matching(l, cur[l])].st = "bad")
               => cur[l].err = "ReadConfig"

(***************************************************************************)
(* C4.  No state across Load calls.                                        *)
(***************************************************************************)
\* what a Loader with the same configuration and no earlier call returns
FirstCall(l) == Load(Configuration(l), cur[l].fs, cur[l].env, schema, cur[l].kind, cur[l].tin)

\* C4: the outcome of a Load on a fresh zero-valued target depends only on
\* the configuration, the file system and the environment at that call: it
\* is the outcome of the same call made with no earlier call.
C4_NoStateAcrossCalls ==
    \A l \in DOMAIN loaders :
        (Valid(l) /\ cur[l].tin = ZeroTarget(schema))
        => /\ cur[l].err = FirstCall(l).err
           /\ cur[l].t = FirstCall(l).t

(***************************************************************************)
(* C5.  Idempotence.                                                       *)
(***************************************************************************)
SameWorld(l) == cur[l].fs = prev[l].fs /\ cur[l].env = prev[l].env

\* C5: two Load calls in a row on one Loader, files and environment
\* unchanged, the first on a zero-valued target, the second on that target
\* or on a fresh one: same error, same target values.
C5_Idempotent ==
    \A l \in DOMAIN loaders :
        ( /\ Valid(l) /\ prev[l].n > 0 /\ prev[l].kind = "ptr-struct"
          /\ SameWorld(l)
          /\ prev[l].tin = ZeroTarget(schema)
          /\ cur[l].tin \in {ZeroTarget(schema), prev[l].t} )
        => /\ cur[l].err = prev[l].err
           /\ cur[l].t = prev[l].t

\* a second successful Load given the target the first one filled from a file
C5_Witness ==
    \E l \in DOMAIN loaders :
        /\ Valid(l) /\ prev[l].n > 0 /\ prev[l].kind = "ptr-struct" /\ SameWorld(l)
        /\ prev[l].tin = ZeroTarget(schema)
        /\ cur[l].tin = prev[l].t /\ cur[l].tin # ZeroTarget(schema)
        /\ cur[l].io.read # {}
        /\ cur[l].err = "" /\ cur[l].t = prev[l].t

(***************************************************************************)
(* C7.  Defaults without overrides.                                        *)
(***************************************************************************)
\* neither the file nor the environment supplies a value to call c
NoOverrides(c) ==
    /\ FileSource(c) = EmptyMap
    /\ \A name \in DOMAIN c.env : c.env[name] = <<>>

\* C7 as written: with no overrides a successful Load leaves every field
\* that declares a default holding it, whatever the target held before.
C7_AsWritten ==
    \A l \in DOMAIN loaders :
        (Succeeded(l) /\ NoOverrides(cur[l]))
        => \A path \in DOMAIN cur[l].t :
               defaultTag(schema, path) # <<>> => cur[l].t[path] = DefaultOrZero(path)

\* C7 amended: with no overrides a successful Load leaves every field that
\* declares a default holding it if the field was zero before the call, and
\* holding the value it had before the call otherwise.
C7_DefaultsOnEmptyFields ==
    \A l \in DOMAIN loaders :
        (Succeeded(l) /\ NoOverrides(cur[l]))
        => \A path \in DOMAIN cur[l].t :
               defaultTag(schema, path) # <<>>
               => cur[l].t[path] = IF cur[l].tin[path] = 0 THEN DefaultOrZero(path)
                                   ELSE cur[l].tin[path]

\* a successful Load without overrides on a zero-valued target: S.P holds 8
C7_Witness ==
    \E l \in DOMAIN loaders :
        /\ Succeeded(l) /\ NoOverrides(cur[l])
        /\ cur[l].tin = ZeroTarget(schema)
        /\ cur[l].t[<<"S", ".", "P">>] = 8


(***************************************************************************)
(* C6.  The name of the environment variable of a key path.                *)
(***************************************************************************)
\* Loader l has returned from a Load that reached the decode step
Decoded(l) == Valid(l) /\ cur[l].err \in {"", "Decode"}

\* the variables whose value the last Load of l looked up for a key
ValueNames(l, key) ==
    { q[2] : q \in { x \in cur[l].io.looked : x[1] = key /\ x[3] \in {"auto", "bound"} } }

\* the configured replacement rule applied to a string
REPLACE(v, str) ==
    IF v.envKeyReplacer = NoReplacer THEN str
    ELSE Replace(v.envKeyReplacer[1], v.envKeyReplacer[2], str)

\* C6 as written: with a prefix configured, the variable consulted for a key
\* path is exactly UPPER(PREFIX + "_" + REPLACE(path)).
C6_AsWritten ==
    \A l \in DOMAIN loaders :
        (Decoded(l) /\ Configuration(l).envPrefix # <<>>)
        => \A path \in DOMAIN cur[l].t :
               ValueNames(l, ToLower(path))
                 = { ToUpper(Configuration(l).envPrefix \o <<"_">>
                             \o REPLACE(Configuration(l), ToLower(path))) }

\* C6 amended: the variable consulted for the value of a key path is exactly
\* REPLACE(UPPER(PREFIX + "_" + path)), and REPLACE(UPPER(path)) when no
\* prefix is configured: the rule is applied to the whole upper-cased name,
\* prefix and joining underscore included.
C6_DerivedName ==
    \A l \in DOMAIN loaders :
        Decoded(l)
        => \A path \in DOMAIN cur[l].t :
               ValueNames(l, ToLower(path))
                 = { REPLACE(Configuration(l),
                             IF Configuration(l).envPrefix # <<>>
                             THEN ToUpper(Configuration(l).envPrefix \o <<"_">> \o ToLower(path))
                             ELSE ToUpper(ToLower(path))) }

\* a Load with prefix "x" and the default rule that looked up X_A_B_C for
\* a.b.c and took its value
C6_Witness ==
    \E l \in DOMAIN loaders :
        /\ Succeeded(l)
        /\ Configuration(l).envPrefix = <<"x">>
        /\ Configuration(l).envKeyReplacer = << <<".">>, <<"_">> >>
        /\ <<"a", ".", "b", ".", "c">> \in DOMAIN cur[l].t
        /\ ValueNames(l, <<"a", ".", "b", ".", "c">>) = { <<"X", "_", "A", "_", "B", "_", "C">> }
        /\ cur[l].t[<<"a", ".", "b", ".", "c">>] = 7

(***************************************************************************)
(* C8.  Loaders are independent of each other.                             *)
(***************************************************************************)
\* Loader l was handed no viper instance that another Loader was handed too
Unshared(l) ==
    \A m \in DOMAIN loaders \ {l} : loaders[l].given \cap loaders[m].given = {}

\* Loader l is where it would be had it been built and called alone
AsAlone(l) ==
    /\ viperOf(l) = solo[l].v
    /\ cur[l].n > 0 => (cur[l].t = solo[l].t /\ cur[l].err = solo[l].err)

\* the positions inside Load
LoadSteps ==
    {"find", "paths", "stat", "ctype", "hit", "setfile", "file", "type", "store", "bind",
     "keys", "get"}

\* two Loaders are inside Load on the same viper instance
BothMutate(l, m) ==
    /\ l # m /\ pc[l] \in LoadSteps /\ pc[m] \in LoadSteps
    /\ loaders[l].v = loaders[m].v

\* C8 as written: whatever the interleaving, every Loader ends each call as
\* it would alone, and no two Loaders are ever inside Load on the same
\* resolver state.
C8_AsWritten ==
    /\ \A l \in DOMAIN loaders : pc[l] = "idle" => AsAlone(l)
    /\ \A l \in DOMAIN loaders, m \in DOMAIN loaders : ~BothMutate(l, m)

\* C8 amended: the same, for Loaders that were not handed one viper
\* instance through WithViper; only such Loaders share resolver state.
C8_IndependentUnlessShared ==
    /\ \A l \in DOMAIN loaders : (Unshared(l) /\ pc[l] = "idle") => AsAlone(l)
    /\ \A l \in DOMAIN loaders, m \in DOMAIN loaders :
           (l # m /\ loaders[l].v = loaders[m].v) => ~Unshared(l)

\* two Loaders on instances of their own that both ran Load, read different
\* files and filled their targets differently
C8_Witness ==
    /\ DOMAIN loaders = {1, 2}
    /\ Unshared(1) /\ Unshared(2)
    /\ Succeeded(1) /\ Succeeded(2)
    /\ cur[1].io.read # {} /\ cur[2].io.read # {}
    /\ cur[1].io.read # cur[2].io.read
    /\ cur[1].t # cur[2].t

(***************************************************************************)
(* C9.  The fields of an emitted log entry.                                *)
(***************************************************************************)
\* the last call of a level method emitted an entry
Emitted == logger.call.outcome = "emitted"

LastEntry == logger.entries[Len(logger.entries)]

\* the first elements of the argument pairs of the last call
PairKeys == { logger.call.args[k] : k \in { i \in 1..Len(logger.call.args) : i % 2 = 1 } }

\* C9: when the number of extra arguments is even and at least 2, the
\* emitted entry carries one field per argument pair, named by the pair's
\* first element and holding that same first element; when the number is
\* odd or zero, the entry carries no fields.
C9_FieldsOfEntry ==
    Emitted =>
        IF Len(logger.call.args) >= 2 /\ Len(logger.call.args) % 2 = 0
        THEN /\ DOMAIN LastEntry.fields = { a.val : a \in PairKeys }
             /\ \A a \in PairKeys : LastEntry.fields[a.val] = a
        ELSE LastEntry.fields = EmptyMap

\* the call of the test: "day", 11, "month", 11 gave day=day month=month
C9_Witness ==
    /\ Emitted
    /\ logger.call.args = << strArg("day"), intArg("11"), strArg("month"), intArg("11") >>
    /\ LastEntry.fields = ("day" :> strArg("day") @@ "month" :> strArg("month"))

(***************************************************************************)
(* C10.  The stream the help is written to.                                *)
(***************************************************************************)
\* C10 as written: when the help renderer has rendered the help of a
\* command, everything it wrote is in the command's configured output
\* stream (OutOrStdout) and nothing is in any other stream.
C10_AllToConfiguredStream ==
    help.last = "help" =>
        \A stream \in DOMAIN help.streams \ {OutOrStdout(help.cmd)} :
            help.streams[stream] = <<>>

(***************************************************************************)
(* C11.  Load changes the target only in its last two steps.               *)
(***************************************************************************)
\* the errors of target validation, config-file reading, key flattening and
\* environment binding
EarlyErrors == {"InvalidTarget", "ReadConfig", "FlattenKeys", "BindEnv"}

\* the call of Loader l has not reached SetDefaults: it is before line 110
\* or it has returned one of the early errors
BeforeDefaults(l) ==
    \/ pc[l] \in LoadSteps \ {"get"}
    \/ pc[l] = "idle" /\ cur[l].err \in EarlyErrors

\* C11: while a Load has not reached its last two steps, and when it returns
\* an error from validation, file reading, key flattening or binding, the
\* target holds the field values it had before the call; it differs from
\* them only inside the final decode step (SetDefaults done, Unmarshal
\* getting the keys), when Load succeeded or when that step failed.
C11_TargetFrame ==
    \A l \in DOMAIN loaders :
        cur[l].n > 0 =>
            /\ BeforeDefaults(l) => cur[l].t = cur[l].tin
            /\ cur[l].t # cur[l].tin
               => \/ pc[l] = "get"
                  \/ pc[l] = "idle" /\ cur[l].err \in {"", "Decode"}

\* a Load on a filled struct that failed reading a malformed file and left
\* the struct as it was, after an earlier Load that had changed its target
C11_Witness ==
    \E l \in DOMAIN loaders :
        /\ Done(l) /\ cur[l].err = "ReadConfig"
        /\ cur[l].tin = PrepopTarget /\ cur[l].t = PrepopTarget
        /\ prev[l].n > 0 /\ prev[l].err = "" /\ prev[l].t # prev[l].tin

(***************************************************************************)
(* C12.  The help group of a subcommand, read from the rendered help.      *)
(***************************************************************************)
\* the help of the command has been rendered
Rendered == help.last = "help"

\* what was written to the command's output stream
Out == help.streams[OutOrStdout(help.cmd)]

\* the writes the untitled description leaves at the head of that stream:
\* its blank line, and its body too when the stream is the process's stdout
UntitledWrites ==
    IF help.cmd.long = EmptyString /\ help.cmd.short = <<>> THEN 0
    ELSE IF OutOrStdout(help.cmd) = "stdout" THEN 2 ELSE 1

\* the titled sections of the output: title, body and blank line each
Sections == 0..(((Len(Out) - UntitledWrites) \div 3) - 1)

SectionTitle(k) == Out[UntitledWrites + 3 * k + 1].s[1].text
SectionBody(k)  == Out[UntitledWrites + 3 * k + 2].s

OtherTitles ==
    { <<"USAGE">>, <<"FLAGS">>, <<"INHERITED FLAGS">>, <<"ARGUMENTS">>, <<"EXAMPLES">>,
      <<"ENVIRONMENT VARIABLES">>, <<"LEARN MORE">>, <<"FEEDBACK">> }

\* the sections that list commands
Groups == { k \in Sections : SectionTitle(k) \notin OtherTitles }

\* subcommand c is listed in section k
ListedIn(c, k) ==
    \E i \in 1..Len(SectionBody(k)) :
        SectionBody(k)[i] = Line(2, rpad(c.name, NamePadding(c)) \o c.short)

GroupsOf(c) == { k \in Groups : ListedIn(c, k) }

Subcommands == Range(help.cmd.subs)

Annotated(c) == "group:core" \in DOMAIN c.ann \/ "group:other" \in DOMAIN c.ann

Listable(c) == ~c.hidden /\ c.short # <<>>

\* the title of the group of a listed subcommand, `fallback` telling whether
\* everything is taken as a core command
GroupTitle(c, fallback) ==
    IF fallback \/ "group:core" \in DOMAIN c.ann THEN <<"CORE COMMANDS">>
    ELSE IF "group:other" \in DOMAIN c.ann
    THEN ToUpper(c.ann["group:other"]) \o <<" COMMANDS">>
    ELSE <<"ADDITIONAL COMMANDS">>

\* every listable subcommand is in exactly one group, the one with its
\* title; the others are in none; in the fallback case no ADDITIONAL
\* COMMANDS section is emitted
Grouping(fallback) ==
    /\ \A c \in Subcommands :
         IF Listable(c)
         THEN /\ Cardinality(GroupsOf(c)) = 1
              /\ \A k \in GroupsOf(c) : SectionTitle(k) = GroupTitle(c, fallback)
         ELSE GroupsOf(c) = {}
    /\ fallback => \A k \in Sections : SectionTitle(k) # <<"ADDITIONAL COMMANDS">>

\* C12 as written: the grouping above, everything being taken as a core
\* command when no subcommand is annotated core or other.
C12_AsWritten ==
    Rendered => Grouping(\A c \in Subcommands : ~Annotated(c))

\* C12 amended: the grouping above, everything being taken as a core command
\* when no subcommand that is listed (not hidden, with a Short) is annotated
\* core or other.
C12_Grouping ==
    Rendered => Grouping(\A c \in Subcommands : Listable(c) => ~Annotated(c))

\* a rendered help with a core command under CORE COMMANDS and a command of
\* the other group "x" under X COMMANDS
C12_Witness ==
    /\ Rendered
    /\ \E b \in Subcommands, c \in Subcommands :
         /\ Listable(b) /\ "group:core" \in DOMAIN b.ann
         /\ Listable(c) /\ ~("group:core" \in DOMAIN c.ann)
         /\ "group:other" \in DOMAIN c.ann /\ c.ann["group:other"] = <<"x">>
         /\ \E k \in GroupsOf(b) : SectionTitle(k) = <<"CORE COMMANDS">>
         /\ \E k \in GroupsOf(c) : SectionTitle(k) = <<"X", " COMMANDS">>

====
